---- MODULE Spec2Model ----
(***************************************************************************)
(* Model of the Windows Desktop Automator recipe engine:                   *)
(*   - AutomationOrchestrator.execute_recipe / _execute_step               *)
(*     (src/automator/core/main.py)                                        *)
(*   - UIProvider._find_element / _find_window                             *)
(*     (src/automator/providers/ui.py)                                     *)
(*   - Recipe.substitute_variables (src/automator/core/dsl.py) and         *)
(*     AutomationOrchestrator._substitute_step_variables                   *)
(*   - UIProvider.wait_for_window / wait_for_element                       *)
(*   - the CLI command run (src/automator/core/main.py)                    *)
(*   - ProcessProvider and FileSystemProvider                              *)
(*     (src/automator/providers/process.py, fs.py)                         *)
(*   - the validators of the recipe data model (src/automator/core/dsl.py) *)
(* The specifications share the variables:                                 *)
(*   Spec      a run of execute_recipe over a recipe accepted by           *)
(*             load_recipe_from_dict                                       *)
(*   SpecRaw   the same run over a recipe whose steps may carry an action  *)
(*             kind outside ActionType (built without validation)          *)
(*   SpecFind  one call of UIProvider._find_element                        *)
(*   SpecVars  a run of execute_recipe whose steps carry placeholders and  *)
(*             store results in the variable mapping                       *)
(*   SpecSubst one call of Recipe.substitute_variables                     *)
(*   SpecStep  one call of _substitute_step_variables                      *)
(*   SpecWait  one polling wait, with its clock                            *)
(*   SpecRun   one invocation of the CLI command run                       *)
(*   SpecCache the connection caches of the UI and process providers       *)
(*   SpecFs    one read, write or copy of the file system provider         *)
(*   SpecDsl   one call of the recipe data model: validation, entropy      *)
(*             score, selector fallbacks, quality warnings                 *)
(***************************************************************************)
EXTENDS Integers, Sequences, FiniteSets, TLC

(* ------------------------------ bounds --------------------------------- *)
\* longest text handed to substitute_variables, in characters
MaxTextLen == 6
\* longest recipe explored (the program allows 1..100 steps)
MaxSteps == 2
\* largest retry_attempts explored (the program allows 1..10)
MaxAttempts == 3
\* largest match set a backend query returns
MaxMatches == 2

\* largest timeout of a polling wait, in seconds (the program allows 1..300)
MaxTimeout == 2

\* how many connection objects the providers create in a run
MaxHandles == 3
\* how many processes are started in a run
MaxPids == 2

\* longest path handed to the file system provider, in components
MaxPathLen == 3

\* largest timeout handed to ActionStep (the program allows 1..300)
MaxTimeoutField == 301
\* largest retry_attempts handed to ActionStep (the program allows 1..10)
MaxRetryField == 11
\* longest step list handed to Recipe (the program allows 1..100 steps)
MaxListLen == 101

(* --------------------------- program constants ------------------------- *)
\* ui.py 58, 62, 95, 99: time.sleep(0.5); the clock of a wait is counted in
\* ticks of half a second
TicksPerSecond == 2
SleepTicks == 1
\* dsl.py validate_timeout: v < 1 is rejected
MinTimeout == 1

\* dsl.py validate_retry_attempts: v < 1 is rejected
MinRetryAttempts == 1
\* dsl.py validate_timeout: v > 300 is rejected
TimeoutLimit == 300
\* dsl.py validate_retry_attempts: v > 10 is rejected
RetryAttemptsLimit == 10
\* dsl.py validate_steps: len(v) > 100 is rejected
StepCountLimit == 100
\* dsl.py validate_name: len(v) < 2 is rejected
MinWindowNameLen == 2
\* dsl.py validate_recipe: step.timeout > 60 is reported
LongTimeout == 60
\* dsl.py validate_recipe: score < 5 is reported
WeakEntropy == 5

\* None of Python, for optional string fields
None == "<None>"

(***************************************************************************)
(* dsl.py ActionType: the enumeration of action kinds.                     *)
(***************************************************************************)
ActionType ==
    {"launch", "wait_for", "click", "type", "hotkey", "verify", "read_text",
     "file_write", "file_read", "file_copy", "screenshot", "ocr_text"}

\* an action kind that is not a member of ActionType
BogusAction == "bogus"

\* action kinds the explored recipes use
StepActions == {"click"}

(***************************************************************************)
(* dsl.py ActionStep: retry_attempts is validated to 1..10, retry_delay is *)
(* a float without validator (negative values are accepted),               *)
(* continue_on_failure is a bool.                                          *)
(***************************************************************************)
RetryDelays == {-1, 0, 1}

(* ------------------------- strings and values -------------------------- *)
(* A Python str is the sequence of its characters.  A value of the         *)
(* variables mapping (Dict[str, Any]) is tagged with its type: a str or an *)
(* int.                                                                    *)
StrValue(chars) == [t |-> "str", v |-> chars]
IntValue(n) == [t |-> "int", v |-> n]

\* the decimal digits of a natural number, as str(n) writes them
RECURSIVE Digits(_)
Digits(n) ==
    LET d == <<"0", "1", "2", "3", "4", "5", "6", "7", "8", "9">>
    IN  IF n < 10 THEN <<d[n + 1]>> ELSE Digits(n \div 10) \o <<d[(n % 10) + 1]>>

\* dsl.py 178: str(value)
PyStr(value) ==
    IF value.t = "str" THEN value.v
    ELSE IF value.v < 0 THEN <<"-">> \o Digits(-value.v)
    ELSE Digits(value.v)

\* mutation: the result key carries the 0-based loop index
ResultKey_ZeroBased(n) ==
    <<"s", "t", "e", "p", "_">> \o Digits(n - 1)
        \o <<"_", "r", "e", "s", "u", "l", "t">>

\* main.py 297, 318, 366: f"step_{self._current_step}_result"
ResultKey(n) ==
    <<"s", "t", "e", "p", "_">> \o Digits(n)
        \o <<"_", "r", "e", "s", "u", "l", "t">>

\* the text "${name}"
Placeholder(name) == <<"$", "{">> \o name \o <<"}">>

\* the name of the variable the explored recipes declare
UserKey == <<"u", "s", "e", "r">>

\* the target.text of every explored step: it mentions the declared variable
\* and the result key of every position a recipe can have
RECURSIVE ResultPlaceholders(_)
ResultPlaceholders(n) ==
    IF n = 0 THEN <<>>
    ELSE ResultPlaceholders(n - 1) \o <<"|">> \o Placeholder(ResultKey(n))

StepText == Placeholder(UserKey) \o ResultPlaceholders(MaxSteps)

\* mutation: the click handler stores a result as well
ResultActions_WithClick == {"read_text", "file_read", "ocr_text", "click"}

\* action kinds whose handler stores its result (main.py 285-301, 310-325,
\* 351-370)
ResultActions == {"read_text", "file_read", "ocr_text"}

\* the texts a backend returns to a result-producing handler
BackendTexts == {<<"A">>, <<"B">>}

\* a variables mapping without keys
NoVariables == [k \in {} |-> StrValue(<<>>)]

\* the variables mappings the explored recipes declare
DeclaredVariables ==
    {NoVariables, [k \in {UserKey} |-> IntValue(7)]}

ActionStep(actions) ==
    [action : actions,
     text : {StepText},
     retry_attempts : MinRetryAttempts..MaxAttempts,
     retry_delay : RetryDelays,
     continue_on_failure : BOOLEAN]

\* dsl.py Recipe.validate_steps: at least one step
Recipes(actions) ==
    UNION {[1..n -> ActionStep(actions)] : n \in 1..MaxSteps}

VARIABLES
    recipe,        \* self._recipe.steps
    variables,     \* self._recipe.variables
    call_log,      \* history: substitutions, results and step-log calls
    pc,            \* position of the control thread in execute_recipe
    i,             \* loop index of "for i, step in enumerate(steps)"
    current_step,  \* self._current_step
    attempt,       \* loop variable of _execute_step
    success,       \* local variable success of execute_recipe
    last_error,    \* local variable last_error of _execute_step
    step_result,   \* history: what _execute_step returned for each step
    inflight,      \* history: handler calls that have not returned yet
    events,        \* history: logger and console events, in order
    ret,           \* what execute_recipe returned to its caller
    fe_pc,             \* position of the control thread in _find_element
    element_selector,  \* argument element_selector of _find_element
    window_selector,   \* argument window_selector of _find_element
    app_name,          \* argument app_name of _find_element
    applications,      \* self._applications (the keys of the cache)
    window,            \* local variable window of _find_element
    search_criteria,   \* local variable search_criteria of _find_element
    qi,                \* position of "for criteria in search_criteria"
    window_calls,      \* history: window lookups made, with their outcome
    queries,           \* history: window.descendants calls, in order
    found,             \* the element _find_element returned ({}: None)
    sub_pc,        \* position in a call of substitute_variables
    sub_mapping,   \* self.variables during that call
    sub_text,      \* argument text of substitute_variables
    sub_result,    \* what substitute_variables returned
    sub_step,      \* argument step of _substitute_step_variables
    sub_copy,      \* what _substitute_step_variables returned or raised
    wt_pc,         \* position in a call of wait_for_window / wait_for_element
    wt_kind,       \* which of the two waits is running
    wt_timeout,    \* argument timeout, in seconds
    wt_now,        \* time.time() - start_time, in ticks
    wt_last_error, \* local variable last_error (0: None, n: raised by evaluation n)
    wt_trace,      \* history: evaluations and sleeps, in order
    wt_log,        \* history: what the wait handed to the logger
    wt_ret,        \* what the wait returned
    cli_pc,        \* position in the CLI command run
    cli_file,      \* the file at recipe_path
    dry_run,       \* option --dry-run
    cli_calls,     \* history: backend calls made outside of step attempts
    cli_exit,      \* exit code of the command (-1: still running)
    ui_applications,    \* UIProvider._applications: app name -> handle
    proc_applications,  \* ProcessProvider._applications: app name -> handle
    launched_processes, \* ProcessProvider._launched_processes: app name -> pid
    processes,          \* the processes of the machine: app name -> pid (0: none)
    handles,            \* how many Application objects have been created
    pids,               \* how many processes have been started
    cache_op,           \* history: the provider operation that ran last
    fs_pc,         \* position in a call of a FileSystemProvider operation
    fs_call,       \* the operation called and its arguments
    files,         \* the files of the machine: real path -> content
    dirs,          \* the directories of the machine: real paths
    fs_trace,      \* history: what the operation did to the file system
    fs_ret,        \* what the operation returned or raised
    dsl_pc,        \* position in a call of the recipe data model (dsl.py)
    dsl_in,        \* the function called and its argument
    dsl_out,       \* what it returned or raised
    ui_pc,         \* position in a call of a UIProvider action operation
    ui_call,       \* the operation called, its arguments, and how the UI
                   \* backend answers during the call
    ui_ret         \* what the operation returned or raised

orchVars ==
    <<recipe, pc, i, current_step, attempt, success, last_error,
      step_result, inflight, events, ret, variables, call_log>>

findVars ==
    <<fe_pc, element_selector, window_selector, app_name, applications,
      window, search_criteria, qi, window_calls, queries, found>>

substVars == <<sub_pc, sub_mapping, sub_text, sub_result, sub_step, sub_copy>>

waitVars ==
    <<wt_pc, wt_kind, wt_timeout, wt_now, wt_last_error, wt_trace, wt_log,
      wt_ret>>

\* the variables neither execute_recipe nor _find_element touches
cliVars == <<cli_pc, cli_file, dry_run, cli_calls, cli_exit>>

\* the state of the providers
cacheVars ==
    <<ui_applications, proc_applications, launched_processes, processes,
      handles, pids, cache_op>>

fsVars == <<fs_pc, fs_call, files, dirs, fs_trace, fs_ret>>

dslVars == <<dsl_pc, dsl_in, dsl_out>>

uiVars == <<ui_pc, ui_call, ui_ret>>

provVars == <<cacheVars, fsVars, dslVars, uiVars>>

extVars == <<substVars, waitVars, cliVars, provVars>>

vars == <<orchVars, findVars, extVars>>

\* an event: its kind, the step it belongs to (0: the recipe), and the attempt
\* number (for recipe events: the step count or the failing step index)
Ev(kind, s, k) == <<kind, s, k>>

(***************************************************************************)
(* main.py _execute_step, lines 132-157: the dispatch table.  Every member *)
(* of ActionType has a handler; anything else raises ValueError.           *)
(***************************************************************************)
Dispatch(action) ==
    IF action \in ActionType THEN "execute_" \o action ELSE "unsupported"

(***************************************************************************)
(* What one dispatched attempt can produce: a handler returns a truthy or  *)
(* a falsy result or raises; the else branch raises ValueError.            *)
(***************************************************************************)
HandlerOutcomes(action) ==
    IF Dispatch(action) = "unsupported"
    THEN {"ValueError"}
    ELSE {"truthy", "falsy", "raise"}

\* main.py 159-165: the error an attempt leaves in last_error
ErrorOf(outcome) ==
    IF outcome = "falsy" THEN "RuntimeError"
    ELSE IF outcome = "raise" THEN "Exception"
    ELSE outcome

\* mutation: the last retry is skipped
ShouldRetry_OneFewer(k, step) == k + 1 < step.retry_attempts

\* mutation: an unsupported action is never retried
ShouldRetry_NoRetryUnsupported(k, step) ==
    k < step.retry_attempts /\ step.action \in ActionType

\* main.py 167: attempts remain
ShouldRetry(k, step) == k < step.retry_attempts

\* mutation: the continue_on_failure test is inverted
AbortsRun_Inverted(step) == step.continue_on_failure

\* main.py 104: a failed step aborts the run
AbortsRun(step) == ~step.continue_on_failure

\* mutation: the loop does not advance
NextIndex_Stuck(n) == n

\* main.py 93: the next loop index
NextIndex(n) == n + 1

\* time.sleep(d) raises ValueError for a negative d
SleepRaises(d) == d < 0

(* ---------------------- Recipe.substitute_variables -------------------- *)
\* the position of the first "}" at or after p; 0 when there is none
NextClose(text, p) ==
    LET c == {e \in p..Len(text) : text[e] = "}"}
    IN  IF c = {} THEN 0 ELSE CHOOSE e \in c : \A f \in c : e <= f

\* mutation: the dollar is left unescaped-as-any-character (. for \$)
MatchEnd_AnyLead(text, p) ==
    IF p + 1 <= Len(text) /\ text[p + 1] = "{"
    THEN LET e == NextClose(text, p + 2)
         IN  IF e >= p + 3 THEN e ELSE 0
    ELSE 0

\* mutation: the name runs to the last "}" of the text (.+ for [^}]+)
MatchEnd_Greedy(text, p) ==
    IF p + 1 <= Len(text) /\ text[p] = "$" /\ text[p + 1] = "{"
    THEN LET c == {e \in (p + 3)..Len(text) : text[e] = "}"}
         IN  IF c = {} THEN 0 ELSE CHOOSE e \in c : \A f \in c : f <= e
    ELSE 0

(***************************************************************************)
(* dsl.py 180: the regular expression \$\{([^}]+)\} tried at position p.    *)
(* It matches "${", then at least one character other than "}", then "}":  *)
(* the position of that "}" is returned, 0 when there is no match at p.    *)
(***************************************************************************)
MatchEnd(text, p) ==
    IF p + 1 <= Len(text) /\ text[p] = "$" /\ text[p + 1] = "{"
    THEN LET e == NextClose(text, p + 2)
         IN  IF e >= p + 3 THEN e ELSE 0
    ELSE 0

\* dsl.py 176-178 replace_var: str(self.variables.get(var_name, match.group(0)))
ReplaceVar(name, whole, mapping) ==
    IF name \in DOMAIN mapping THEN PyStr(mapping[name]) ELSE PyStr(StrValue(whole))

(***************************************************************************)
(* dsl.py 180 re.sub: scan from the left; a match is replaced and the scan *)
(* resumes behind it (matches do not overlap, replacements are not         *)
(* scanned again); a character that starts no match is copied.             *)
(***************************************************************************)
RECURSIVE ReSub(_, _, _)
ReSub(text, p, mapping) ==
    IF p > Len(text) THEN <<>>
    ELSE LET e == MatchEnd(text, p)
         IN  IF e = 0
             THEN <<text[p]>> \o ReSub(text, p + 1, mapping)
             ELSE ReplaceVar(SubSeq(text, p + 2, e - 1), SubSeq(text, p, e), mapping)
                      \o ReSub(text, e + 1, mapping)

\* dsl.py 171-180 Recipe.substitute_variables, for a str argument
SubstituteVariables(text, mapping) == ReSub(text, 1, mapping)

\* mutation: the attempt works on the step as written
SubstitutedStep_NoSubstitution(step, mapping) == step

(***************************************************************************)
(* main.py 179-199 _substitute_step_variables, on the fields a run uses:   *)
(* the step itself when the mapping is empty, otherwise a copy whose text  *)
(* is substituted.                                                         *)
(***************************************************************************)
SubstitutedStep(step, mapping) ==
    IF DOMAIN mapping = {} THEN step
    ELSE [step EXCEPT !.text = SubstituteVariables(@, mapping)]

\* main.py 297-298, 318-319, 366-367: self._recipe.variables[key] = value
Store(mapping, key, value) ==
    [k \in DOMAIN mapping \cup {key} |-> IF k = key THEN value ELSE mapping[k]]

\* an entry of the call history: the call, the step and attempt it belongs
\* to, and its arguments (n: max_attempts, text)
Call(call, s, k, n, text) ==
    [call |-> call, step |-> s, attempt |-> k, n |-> n, text |-> text]

\* no call of _find_element is in progress
FindOff ==
    /\ fe_pc = "off"
    /\ element_selector = None
    /\ window_selector = None
    /\ app_name = None
    /\ applications = {}
    /\ window = None
    /\ search_criteria = <<>>
    /\ qi = 0
    /\ window_calls = <<>>
    /\ queries = <<>>
    /\ found = {}

\* no call of substitute_variables is in progress
SubstOff ==
    /\ sub_pc = "off"
    /\ sub_mapping = NoVariables
    /\ sub_text = <<>>
    /\ sub_result = <<>>
    /\ sub_step = <<>>
    /\ sub_copy = <<>>

\* no polling wait is in progress
WaitOff ==
    /\ wt_pc = "off"
    /\ wt_kind = None
    /\ wt_timeout = 0
    /\ wt_now = 0
    /\ wt_last_error = 0
    /\ wt_trace = <<>>
    /\ wt_log = <<>>
    /\ wt_ret = "pending"

\* execute_recipe is not called from the command line
CliOff ==
    /\ cli_pc = "off"
    /\ cli_file = None
    /\ dry_run = FALSE
    /\ cli_calls = <<>>
    /\ cli_exit = -1

\* an empty dictionary keyed by application names
NoApps == [a \in {} |-> 0]

\* no provider operation has run
CacheOff ==
    /\ ui_applications = NoApps
    /\ proc_applications = NoApps
    /\ launched_processes = NoApps
    /\ processes = NoApps
    /\ handles = 0
    /\ pids = 0
    /\ cache_op = None

\* no FileSystemProvider operation is called
FsOff ==
    /\ fs_pc = "off"
    /\ fs_call = None
    /\ files = <<>>
    /\ dirs = {}
    /\ fs_trace = <<>>
    /\ fs_ret = None

\* no function of the recipe data model is called
DslOff ==
    /\ dsl_pc = "off"
    /\ dsl_in = None
    /\ dsl_out = None

\* no UIProvider action operation is called
UiOff ==
    /\ ui_pc = "off"
    /\ ui_call = None
    /\ ui_ret = None

ProvOff == CacheOff /\ FsOff /\ DslOff /\ UiOff

ExtOff == SubstOff /\ WaitOff /\ CliOff /\ ProvOff

\* no recipe is loaded
OrchOff ==
    /\ recipe = <<>>
    /\ variables = NoVariables
    /\ call_log = <<>>
    /\ pc = "off"
    /\ i = 0
    /\ current_step = 0
    /\ attempt = 0
    /\ success = TRUE
    /\ last_error = None
    /\ step_result = <<>>
    /\ inflight = {}
    /\ events = <<>>
    /\ ret = "pending"

InitRun(recipes, declared) ==
    /\ recipe \in recipes
    /\ variables \in declared
    /\ call_log = <<>>
    /\ pc = "loaded"
    /\ i = 0
    /\ current_step = 0
    /\ attempt = 0
    /\ success = TRUE
    /\ last_error = None
    /\ step_result = [s \in DOMAIN recipe |-> "pending"]
    /\ inflight = {}
    /\ events = <<>>
    /\ ret = "pending"
    /\ FindOff
    /\ ExtOff

InitOrch(actions) == InitRun(Recipes(actions), {NoVariables})

(***************************************************************************)
(* execute_recipe, lines 77-91: reset the counters, log the start.         *)
(***************************************************************************)
ExecuteRecipe ==
    /\ UNCHANGED <<findVars, extVars>>
    /\ pc = "loaded"
    /\ current_step' = 0
    /\ i' = 0
    /\ success' = TRUE
    /\ events' = Append(events, Ev("recipe_start", 0, 0))
    /\ pc' = "for_step"
    /\ UNCHANGED <<recipe, attempt, last_error, step_result, inflight, ret,
                   variables, call_log>>

(***************************************************************************)
(* execute_recipe, lines 93-98: the loop head takes the next step and      *)
(* calls _execute_step (lines 124-126: attempt = 1).                       *)
(***************************************************************************)
BeginStep ==
    /\ UNCHANGED <<findVars, extVars>>
    /\ pc = "for_step"
    /\ i < Len(recipe)
    /\ current_step' = i + 1
    /\ attempt' = 1
    /\ last_error' = None
    /\ step_result' = [step_result EXCEPT ![i + 1] = "running"]
    /\ events' = Append(events, Ev("step_begin", i + 1, 0))
    /\ pc' = "attempt"
    /\ UNCHANGED <<recipe, i, success, inflight, ret, variables, call_log>>

(***************************************************************************)
(* _execute_step, lines 127-157: substitute and dispatch the handler.      *)
(***************************************************************************)
DispatchAttempt ==
    /\ UNCHANGED <<findVars, extVars>>
    /\ pc = "attempt"
    /\ events' = Append(events, Ev("attempt", current_step, attempt))
    /\ call_log' = Append(call_log,
                       Call("substitute", current_step, attempt, 0,
                            SubstitutedStep(recipe[current_step], variables).text))
    /\ inflight' = inflight \cup {<<current_step, attempt>>}
    /\ pc' = "handler"
    /\ UNCHANGED <<recipe, i, current_step, attempt, success, last_error,
                   step_result, ret, variables>>

(***************************************************************************)
(* execute_recipe, lines 100-108: what the loop does with the value        *)
(* _execute_step returned for step s.                                      *)
(***************************************************************************)
AfterStep(s, ok, evs) ==
    /\ step_result' = [step_result EXCEPT ![s] = IF ok THEN "True" ELSE "False"]
    /\ IF ok
       THEN /\ events' = evs \o <<Ev("completed", s, 0)>>
            /\ i' = NextIndex(i)
            /\ pc' = "for_step"
            /\ success' = success
       ELSE /\ events' = evs \o <<Ev("failed", s, 0)>>
            /\ IF AbortsRun(recipe[s])
               THEN /\ success' = FALSE
                    /\ i' = i
                    /\ pc' = "finish"
               ELSE /\ success' = success
                    /\ i' = NextIndex(i)
                    /\ pc' = "for_step"

(***************************************************************************)
(* _execute_step, lines 159-160: the handler returned a truthy result.     *)
(***************************************************************************)
AttemptSucceeds ==
    /\ UNCHANGED <<findVars, extVars>>
    /\ pc = "handler"
    /\ "truthy" \in HandlerOutcomes(recipe[current_step].action)
    /\ IF recipe[current_step].action \in ResultActions
       THEN \E text \in BackendTexts :
               /\ variables' = Store(variables, ResultKey(current_step),
                                     StrValue(text))
               /\ call_log' = Append(call_log,
                                  Call("result", current_step, attempt, 0,
                                       text))
       ELSE UNCHANGED <<variables, call_log>>
    /\ inflight' = inflight \ {<<current_step, attempt>>}
    /\ AfterStep(current_step, TRUE,
                 Append(events, Ev("handler_ok", current_step, attempt)))
    /\ UNCHANGED <<recipe, current_step, attempt, last_error, ret>>

\* mutation: a falsy result makes _execute_step return False at once; only
\* a raised exception is retried
AttemptFails_FalsyReturnsFalse ==
    /\ UNCHANGED <<findVars, extVars>>
    /\ pc = "handler"
    /\ \E o \in HandlerOutcomes(recipe[current_step].action) \ {"truthy"} :
          /\ last_error' = ErrorOf(o)
          /\ inflight' = inflight \ {<<current_step, attempt>>}
          /\ IF o # "falsy" /\ ShouldRetry(attempt, recipe[current_step])
             THEN /\ events' = events \o <<Ev("handler_failed", current_step, attempt),
                                            Ev("retry", current_step, attempt)>>
                  /\ call_log' = Append(call_log,
                                     Call("log_step_retry", current_step, attempt,
                                          recipe[current_step].retry_attempts,
                                          <<>>))
                  /\ pc' = "sleep"
                  /\ UNCHANGED <<i, success, step_result>>
             ELSE /\ call_log' = Append(call_log,
                                     Call("log_step_failure", current_step,
                                          attempt, 0, <<>>))
                  /\ AfterStep(current_step, FALSE,
                               events \o <<Ev("handler_failed", current_step, attempt),
                                           Ev("step_failure", current_step, attempt)>>)
    /\ UNCHANGED <<recipe, current_step, attempt, ret, variables>>

(***************************************************************************)
(* _execute_step, lines 161-175: the attempt failed (falsy result, raised  *)
(* exception, unsupported action).  With attempts left: retry event, then  *)
(* the sleep; otherwise failure event and return False.                    *)
(***************************************************************************)
AttemptFails ==
    /\ UNCHANGED <<findVars, extVars>>
    /\ pc = "handler"
    /\ \E o \in HandlerOutcomes(recipe[current_step].action) \ {"truthy"} :
          /\ last_error' = ErrorOf(o)
          /\ inflight' = inflight \ {<<current_step, attempt>>}
          /\ IF ShouldRetry(attempt, recipe[current_step])
             THEN /\ events' = events \o <<Ev("handler_failed", current_step, attempt),
                                            Ev("retry", current_step, attempt)>>
                  /\ call_log' = Append(call_log,
                                     Call("log_step_retry", current_step, attempt,
                                          recipe[current_step].retry_attempts,
                                          <<>>))
                  /\ pc' = "sleep"
                  /\ UNCHANGED <<i, success, step_result>>
             ELSE /\ call_log' = Append(call_log,
                                     Call("log_step_failure", current_step,
                                          attempt, 0, <<>>))
                  /\ AfterStep(current_step, FALSE,
                               events \o <<Ev("handler_failed", current_step, attempt),
                                           Ev("step_failure", current_step, attempt)>>)
    /\ UNCHANGED <<recipe, current_step, attempt, ret, variables>>

(***************************************************************************)
(* _execute_step, line 171: time.sleep(step.retry_delay), then the next    *)
(* iteration of the attempt loop.                                          *)
(***************************************************************************)
RetrySleep ==
    /\ UNCHANGED <<findVars, extVars>>
    /\ pc = "sleep"
    /\ ~SleepRaises(recipe[current_step].retry_delay)
    /\ events' = Append(events, Ev("sleep", current_step, attempt))
    /\ attempt' = attempt + 1
    /\ pc' = "attempt"
    /\ UNCHANGED <<recipe, i, current_step, success, last_error, step_result,
                   inflight, ret, variables, call_log>>

(***************************************************************************)
(* _execute_step, line 171, inside the except block: a negative            *)
(* retry_delay makes time.sleep raise ValueError; nothing catches it in    *)
(* _execute_step or execute_recipe.                                        *)
(***************************************************************************)
RetrySleepRaises ==
    /\ UNCHANGED <<findVars, extVars>>
    /\ pc = "sleep"
    /\ SleepRaises(recipe[current_step].retry_delay)
    /\ step_result' = [step_result EXCEPT ![current_step] = "raised"]
    /\ ret' = "ValueError"
    /\ pc' = "raised"
    /\ UNCHANGED <<recipe, i, current_step, attempt, success, last_error,
                   inflight, events, variables, call_log>>

(***************************************************************************)
(* execute_recipe, lines 110-120: the terminal event and the return value. *)
(***************************************************************************)
FinishRecipe ==
    /\ UNCHANGED <<findVars, extVars>>
    /\ \/ pc = "finish"
       \/ pc = "for_step" /\ i >= Len(recipe)
    /\ events' = Append(events,
                        IF success
                        THEN Ev("recipe_complete", 0, Len(recipe))
                        ELSE Ev("recipe_failure", 0, current_step))
    /\ ret' = IF success THEN "True" ELSE "False"
    /\ pc' = "returned"
    /\ UNCHANGED <<recipe, i, current_step, attempt, success, last_error,
                   step_result, inflight, variables, call_log>>

NextOrch ==
    \/ ExecuteRecipe
    \/ BeginStep
    \/ DispatchAttempt
    \/ AttemptSucceeds
    \/ AttemptFails
    \/ RetrySleep
    \/ RetrySleepRaises
    \/ FinishRecipe

(* ===================== UIProvider._find_element ======================== *)

\* Python truthiness of an Optional[str]
Truthy(v) == v # None /\ v # ""

\* the application names the explored calls use
AppNames == {"app.exe"}

(***************************************************************************)
(* dsl.py ElementSelector: seven optional strings and an optional index    *)
(* (<<>> is None, <<n>> the integer n; negative integers are accepted).    *)
(***************************************************************************)
ElementSelector ==
    [automation_id : {None, "", "id"},
     control_type : {None, "", "Button"},
     class_name : {None, "", "Cls"},
     name : {None, "", "OK"},
     value : {None, "v"},
     help_text : {None, "h"},
     accessible_name : {None, "a"},
     index : {<<>>} \cup {<<n>> : n \in (0 - MaxMatches - 1)..MaxMatches}]

\* ui.py 435: index = element_selector.index or 0
IndexOf(sel) == IF sel.index = <<>> THEN 0 ELSE sel.index[1]

\* mutation: class_name + name is tried before control_type + name
SearchCriteria_ClassFirst(sel) ==
    (IF Truthy(sel.automation_id)
     THEN << {<<"auto_id", sel.automation_id>>} >> ELSE <<>>)
    \o (IF Truthy(sel.class_name) /\ Truthy(sel.name)
        THEN << {<<"class_name", sel.class_name>>, <<"title", sel.name>>} >>
        ELSE <<>>)
    \o (IF Truthy(sel.control_type) /\ Truthy(sel.name)
        THEN << {<<"control_type", sel.control_type>>, <<"title", sel.name>>} >>
        ELSE <<>>)
    \o (IF Truthy(sel.name)
        THEN << {<<"title", sel.name>>} >> ELSE <<>>)
    \o (IF Truthy(sel.control_type)
        THEN << {<<"control_type", sel.control_type>>} >> ELSE <<>>)

\* mutation: name alone is tried before the two-field criteria
SearchCriteria_NameFirst(sel) ==
    (IF Truthy(sel.automation_id)
     THEN << {<<"auto_id", sel.automation_id>>} >> ELSE <<>>)
    \o (IF Truthy(sel.name)
        THEN << {<<"title", sel.name>>} >> ELSE <<>>)
    \o (IF Truthy(sel.control_type) /\ Truthy(sel.name)
        THEN << {<<"control_type", sel.control_type>>, <<"title", sel.name>>} >>
        ELSE <<>>)
    \o (IF Truthy(sel.class_name) /\ Truthy(sel.name)
        THEN << {<<"class_name", sel.class_name>>, <<"title", sel.name>>} >>
        ELSE <<>>)
    \o (IF Truthy(sel.control_type)
        THEN << {<<"control_type", sel.control_type>>} >> ELSE <<>>)

(***************************************************************************)
(* ui.py 402-427: the list of criteria dicts, each a set of <<key, value>>.*)
(***************************************************************************)
SearchCriteria(sel) ==
    (IF Truthy(sel.automation_id)
     THEN << {<<"auto_id", sel.automation_id>>} >> ELSE <<>>)
    \o (IF Truthy(sel.control_type) /\ Truthy(sel.name)
        THEN << {<<"control_type", sel.control_type>>, <<"title", sel.name>>} >>
        ELSE <<>>)
    \o (IF Truthy(sel.class_name) /\ Truthy(sel.name)
        THEN << {<<"class_name", sel.class_name>>, <<"title", sel.name>>} >>
        ELSE <<>>)
    \o (IF Truthy(sel.name)
        THEN << {<<"title", sel.name>>} >> ELSE <<>>)
    \o (IF Truthy(sel.control_type)
        THEN << {<<"control_type", sel.control_type>>} >> ELSE <<>>)

(***************************************************************************)
(* ui.py 352-385 _find_window: the windows it can return and the cache it  *)
(* leaves.  A tracked application answers with app.window(...); an         *)
(* untracked one is connected (and cached) if the connection succeeds;     *)
(* otherwise any matching window is looked up, which may raise (None).     *)
(***************************************************************************)
FindWindow(app, apps) ==
    IF app # None /\ app \in apps
    THEN {[window |-> "selector_window", apps |-> apps]}
    ELSE IF app # None
    THEN {[window |-> "selector_window", apps |-> apps \cup {app}],
          [window |-> "selector_window", apps |-> apps],
          [window |-> None, apps |-> apps]}
    ELSE {[window |-> "selector_window", apps |-> apps],
          [window |-> None, apps |-> apps]}

\* mutation: no fallback to the desktop
UsesDesktopFallback_Never(w) == FALSE

\* ui.py 398: if not window
UsesDesktopFallback(w) == w = None

\* mutation: the index is ignored, the first match is returned
PickElement_First(n, idx) == IF n > 0 THEN {0} ELSE {}

(***************************************************************************)
(* ui.py 433-437: the position returned from a match list of length n, as  *)
(* a set ({}: this iteration returns nothing).  A negative index counts    *)
(* from the end; below -n elements[index] raises IndexError, which the     *)
(* except of line 438 turns into "continue".                               *)
(***************************************************************************)
PickElement(n, idx) ==
    IF n > 0 /\ idx < n
    THEN IF idx >= 0 THEN {idx}
         ELSE IF idx >= 0 - n THEN {n + idx}
         ELSE {}
    ELSE {}

\* mutation: a non-empty match set without the index ends the loop
AfterMiss_Abort(q, total, n) == IF n > 0 THEN total + 1 ELSE q + 1

\* ui.py 430: the loop position after an iteration that returned nothing
\* (q: this position, total: len(search_criteria), n: matches of this query)
AfterMiss(q, total, n) == q + 1

InitFind ==
    /\ OrchOff
    /\ ExtOff
    /\ fe_pc = "called"
    /\ element_selector \in ElementSelector
    /\ window_selector \in {None, "WindowSelector"}
    /\ app_name \in {None} \cup AppNames
    /\ applications \in SUBSET AppNames
    /\ window = None
    /\ search_criteria = <<>>
    /\ qi = 0
    /\ window_calls = <<>>
    /\ queries = <<>>
    /\ found = {}

\* _find_element returns None before any query (outer except, line 443)
FindElementFails(calls) ==
    /\ window' = None
    /\ window_calls' = calls
    /\ fe_pc' = "done"
    /\ found' = {}
    /\ UNCHANGED <<search_criteria, qi>>

\* ui.py 402-427: the search root is w; build the criteria, enter the loop
FindElementSearch(w, calls) ==
    /\ window' = w
    /\ window_calls' = calls
    /\ search_criteria' = SearchCriteria(element_selector)
    /\ qi' = 1
    /\ fe_pc' = "query"
    /\ UNCHANGED found

\* ui.py 398-400: the window the first lookup gave, or the desktop
FindElementRoot(w, calls) ==
    IF UsesDesktopFallback(w)
    THEN \/ FindElementSearch("explorer_top_window",
                              Append(calls, <<"explorer", "ok">>))
         \/ FindElementFails(Append(calls, <<"explorer", "raise">>))
    ELSE FindElementSearch(w, calls)

(***************************************************************************)
(* _find_element, lines 390-427: resolve the parent window (by the window  *)
(* selector, else the tracked application's top window, else the desktop)  *)
(* and build the criteria list.                                            *)
(***************************************************************************)
FindElementBegin ==
    /\ UNCHANGED <<orchVars, extVars>>
    /\ fe_pc = "called"
    /\ UNCHANGED <<element_selector, window_selector, app_name, queries>>
    /\ IF window_selector # None
       THEN \E r \in FindWindow(app_name, applications) :
               /\ applications' = r.apps
               /\ FindElementRoot(r.window,
                      <<(<<"_find_window",
                           IF r.window = None THEN "None" ELSE "ok">>)>>)
       ELSE /\ UNCHANGED applications
            /\ IF app_name # None /\ app_name \in applications
               THEN \/ FindElementRoot("app_top_window",
                                       <<(<<"top_window", "ok">>)>>)
                    \/ FindElementFails(<<(<<"top_window", "raise">>)>>)
               ELSE FindElementRoot(None, <<>>)

(***************************************************************************)
(* _find_element, lines 430-439: one iteration of the loop: the query      *)
(* raises, or returns 0..MaxMatches elements.                              *)
(***************************************************************************)
TryCriteria ==
    /\ UNCHANGED <<orchVars, extVars>>
    /\ fe_pc = "query"
    /\ qi <= Len(search_criteria)
    /\ \E raised \in BOOLEAN, n \in 0..MaxMatches :
          /\ raised => n = 0
          /\ queries' = Append(queries,
                 [criteria |-> search_criteria[qi], window |-> window,
                  raised |-> raised, matches |-> n])
          /\ LET picked == IF raised THEN {}
                           ELSE PickElement(n, IndexOf(element_selector))
             IN IF picked # {}
                THEN /\ found' = {<<qi, pos>> : pos \in picked}
                     /\ fe_pc' = "done"
                     /\ qi' = qi
                ELSE /\ found' = found
                     /\ fe_pc' = fe_pc
                     /\ qi' = AfterMiss(qi, Len(search_criteria), n)
    /\ UNCHANGED <<element_selector, window_selector, app_name, applications,
                   window, search_criteria, window_calls>>

(***************************************************************************)
(* _find_element, line 441: the criteria list is exhausted, return None.   *)
(***************************************************************************)
FindElementNone ==
    /\ UNCHANGED <<orchVars, extVars>>
    /\ fe_pc = "query"
    /\ qi > Len(search_criteria)
    /\ fe_pc' = "done"
    /\ found' = {}
    /\ UNCHANGED <<element_selector, window_selector, app_name, applications,
                   window, search_criteria, qi, window_calls, queries>>

NextFind ==
    \/ FindElementBegin
    \/ TryCriteria
    \/ FindElementNone

SpecFind == InitFind /\ [][NextFind]_vars

(* ======================= properties of a recipe run ==================== *)

\* positions of the events of one kind that belong to step s
EvIdx(kind, s) ==
    {j \in DOMAIN events : events[j][1] = kind /\ events[j][2] = s}

Count(kind, s) == Cardinality(EvIdx(kind, s))

\* _execute_step has returned or raised for step s
Ended(s) == step_result[s] \in {"True", "False", "raised"}

\* every sleep of step s lies strictly between attempt k and attempt k + 1
SleepsBetweenAttempts(s) ==
    \A j \in EvIdx("sleep", s) :
        \E a, b \in EvIdx("attempt", s) :
            /\ a < j /\ j < b
            /\ events[a][3] = events[j][3]
            /\ events[b][3] = events[j][3] + 1

\* C1: a step whose handler fails on every attempt is dispatched exactly
\* retry_attempts times, sleeps retry_delay exactly retry_attempts - 1 times,
\* each sleep strictly between two consecutive attempts, and ends FAILED
\* (_execute_step returns False).
C1_AlwaysFailingStep ==
    \A s \in DOMAIN recipe :
        (Ended(s) /\ Count("handler_ok", s) = 0) =>
            /\ Count("attempt", s) = recipe[s].retry_attempts
            /\ Count("sleep", s) = recipe[s].retry_attempts - 1
            /\ SleepsBetweenAttempts(s)
            /\ step_result[s] = "False"

\* C2: _execute_step succeeds iff one of the first retry_attempts attempts
\* returns a truthy result: a step that ended without success has had all
\* its retry_attempts attempts dispatched and every one failed; a step whose
\* attempt k is the first truthy one ends in success after exactly k
\* attempts, with nothing of that step after it.
C2_SuccessIffSomeAttemptTruthy ==
    \A s \in DOMAIN recipe :
        Ended(s) =>
            /\ step_result[s] = "True" <=> Count("handler_ok", s) > 0
            /\ step_result[s] # "True" =>
                   /\ Count("attempt", s) = recipe[s].retry_attempts
                   /\ Count("handler_failed", s) = recipe[s].retry_attempts
            /\ step_result[s] = "True" =>
                   \E j \in EvIdx("handler_ok", s) :
                       /\ Count("attempt", s) = events[j][3]
                       /\ events[j][3] <= recipe[s].retry_attempts
                       /\ Count("handler_failed", s) = events[j][3] - 1
                       /\ \A m \in DOMAIN events :
                              (m > j /\ events[m][2] = s) =>
                                  events[m][1] = "completed"

\* C3: after step s ends FAILED the next step is executed iff step s has
\* continue_on_failure; otherwise the run aborts at index s and no attempt
\* of a later step is ever dispatched.
C3_ContinueOnFailure ==
    \A s \in DOMAIN recipe :
        step_result[s] = "False" =>
            IF recipe[s].continue_on_failure
            THEN s < Len(recipe) =>
                     \/ pc = "for_step" /\ i = s
                     \/ step_result[s + 1] # "pending"
            ELSE /\ pc \in {"finish", "returned"}
                 /\ current_step = s
                 /\ ~success
                 /\ \A t \in DOMAIN recipe :
                        t > s => /\ step_result[t] = "pending"
                                 /\ Count("attempt", t) = 0
                                 /\ Count("step_begin", t) = 0

C3_Witness ==
    /\ Len(recipe) = 2
    /\ step_result[1] = "False"
    /\ recipe[1].continue_on_failure
    /\ Count("attempt", 2) > 0

\* C4: steps are dispatched strictly in declared order and one at a time:
\* the attempts appear in the order of (step, attempt), the first attempt of
\* step s + 1 comes after step s reached SUCCESS or FAILED, every step is
\* executed at most once, and at most one attempt is in flight.
C4_SequentialInOrder ==
    /\ \A p, q \in DOMAIN events :
           (p < q /\ events[p][1] = "attempt" /\ events[q][1] = "attempt") =>
               \/ events[p][2] < events[q][2]
               \/ events[p][2] = events[q][2] /\ events[p][3] < events[q][3]
    /\ \A q \in DOMAIN events :
           (events[q][1] = "attempt" /\ events[q][2] > 1) =>
               \E p \in 1..(q - 1) :
                   /\ events[p][1] \in {"completed", "failed"}
                   /\ events[p][2] = events[q][2] - 1
    /\ \A s \in DOMAIN recipe : Count("step_begin", s) <= 1
    /\ Cardinality(inflight) <= 1
    /\ inflight # {} => inflight = {<<current_step, attempt>>}

C4_Witness ==
    /\ Len(recipe) = 2
    /\ Count("attempt", 1) = 2
    /\ inflight = {<<2, 2>>}

\* C5: execute_recipe always returns a boolean and never lets an exception
\* reach its caller; a False return reports the failing step index.
C5_NoExceptionEscapes ==
    /\ ret \in {"pending", "True", "False"}
    /\ pc # "raised"
    /\ ret = "False" =>
           /\ events[Len(events)] = Ev("recipe_failure", 0, current_step)
           /\ step_result[current_step] = "False"

InRange(n, idx) == 0 - n <= idx /\ idx < n

\* the position elements[idx] denotes in a list of length n
PositionOf(n, idx) == IF idx >= 0 THEN idx ELSE n + idx

\* query j returned a non-empty match set that contains the index
Hit(j) ==
    /\ ~queries[j].raised
    /\ queries[j].matches > 0
    /\ InRange(queries[j].matches, IndexOf(element_selector))

\* query j returned a non-empty match set that does not contain the index
IndexMiss(j) ==
    /\ ~queries[j].raised
    /\ queries[j].matches > 0
    /\ ~InRange(queries[j].matches, IndexOf(element_selector))

\* the queries issued so far are the first candidates, in list order
IssuedInListOrder ==
    /\ Len(queries) <= Len(search_criteria)
    /\ \A j \in DOMAIN queries : queries[j].criteria = search_criteria[j]

\* C7 (as claimed): when a query returns a non-empty match set for which
\* the index is out of range, resolution fails outright: no lower-priority
\* query is issued afterwards and no element is returned.
C7_IndexMissAborts ==
    \A j \in DOMAIN queries :
        IndexMiss(j) =>
            /\ j = Len(queries)
            /\ fe_pc = "done" => found = {}

\* C7 (amended): when a query returns a non-empty match set for which the
\* index is out of range, that candidate is skipped: no element of it is
\* returned, the next candidate query (if any) is issued, and resolution
\* returns no element only once the candidate list is exhausted.
C7_IndexMissFallsThrough ==
    \A j \in DOMAIN queries :
        IndexMiss(j) =>
            /\ \A e \in found : e[1] # j
            /\ IF j < Len(search_criteria)
               THEN \/ Len(queries) = j /\ fe_pc = "query" /\ qi = j + 1
                    \/ /\ Len(queries) > j
                       /\ queries[j + 1].criteria = search_criteria[j + 1]
               ELSE \/ fe_pc = "query" /\ qi = j + 1
                    \/ fe_pc = "done" /\ found = {}

C7_Witness ==
    /\ Len(queries) = 2
    /\ IndexMiss(1)
    /\ found = {<<2, 1>>}

\* C8 (as claimed): queries are issued one at a time in list order; as soon
\* as one returns at least one match, the element at position index of that
\* match set is the result and no later query is issued.
C8_FirstMatchEndsSearch ==
    /\ IssuedInListOrder
    /\ \A j \in DOMAIN queries :
           (~queries[j].raised /\ queries[j].matches > 0) =>
               /\ j = Len(queries)
               /\ Hit(j) =>
                      found = {<<j, PositionOf(queries[j].matches,
                                               IndexOf(element_selector))>>}

\* C8 (amended): queries are issued one at a time in list order; as soon as
\* one returns a match set that contains position index, the element at
\* that position is the result and no later query is issued; every query
\* before it raised, matched nothing, or lacked position index.
C8_FirstHitEndsSearch ==
    /\ IssuedInListOrder
    /\ \A j \in DOMAIN queries :
           IF Hit(j)
           THEN /\ j = Len(queries)
                /\ fe_pc = "done"
                /\ found = {<<j, PositionOf(queries[j].matches,
                                            IndexOf(element_selector))>>}
           ELSE \A e \in found : e[1] # j
    /\ found # {} => queries # <<>> /\ Hit(Len(queries))
    /\ fe_pc = "query" => qi = Len(queries) + 1

C8_Witness ==
    /\ Len(queries) = 2
    /\ ~queries[1].raised /\ queries[1].matches = 0
    /\ queries[2].matches = 2
    /\ element_selector.index = <<1>>
    /\ found = {<<2, 1>>}

\* the selector fields a candidate query uses, most specific first
CandidateFields ==
    << {"automation_id"}, {"control_type", "name"}, {"class_name", "name"},
       {"name"}, {"control_type"} >>

\* the backend keyword of a selector field
KeywordOf(f) ==
    IF f = "automation_id" THEN "auto_id"
    ELSE IF f = "name" THEN "title"
    ELSE f

\* C9: the candidate query list is exactly the subsequence, in the fixed
\* order, of: automation_id alone; control_type + name; class_name + name;
\* name alone; control_type alone - each present iff all its fields are set
\* (non-empty).  value, help_text and accessible_name never produce a query,
\* and a selector with none of the four used fields yields no query and no
\* element.
C9_CandidateList ==
    (fe_pc = "query" \/ (fe_pc = "done" /\ window # None)) =>
        LET IsSet(fields) == \A f \in fields : Truthy(element_selector[f])
            chosen == SelectSeq(CandidateFields, IsSet)
        IN /\ Len(search_criteria) = Len(chosen)
           /\ \A j \in DOMAIN chosen :
                  search_criteria[j] =
                      {<<KeywordOf(f), element_selector[f]>> : f \in chosen[j]}
           /\ \A j \in DOMAIN search_criteria :
                  \A kv \in search_criteria[j] :
                      kv[1] \in {"auto_id", "control_type", "class_name", "title"}
           /\ (\A f \in {"automation_id", "control_type", "class_name", "name"} :
                   ~Truthy(element_selector[f])) =>
                  /\ search_criteria = <<>>
                  /\ queries = <<>>
                  /\ found = {}

C9_Witness ==
    /\ fe_pc = "done"
    /\ Len(search_criteria) = 5
    /\ Len(queries) = 5
    /\ element_selector.value = "v"
    /\ element_selector.help_text = "h"
    /\ element_selector.accessible_name = "a"

\* the application named by app_name is tracked in self._applications
Tracked == app_name # None /\ app_name \in applications

StepResultName(s) ==
    <<"s", "t", "e", "p", "_">> \o Digits(s)
        \o <<"_", "r", "e", "s", "u", "l", "t">>

\* the positions of the call history that hold the given call of step s
CallsOf(call, s) ==
    {j \in DOMAIN call_log : call_log[j].call = call /\ call_log[j].step = s}

\* the text the backend returned to the successful attempt of step s
ReturnedText(s) == call_log[CHOOSE j \in CallsOf("result", s) : TRUE].text

\* what an attempt of step j has to read where the step text names the
\* result of position n
RECURSIVE VisibleResults(_, _)
VisibleResults(n, j) ==
    IF n = 0 THEN <<>>
    ELSE VisibleResults(n - 1, j) \o <<"|">>
             \o (IF n < j /\ CallsOf("result", n) # {}
                 THEN ReturnedText(n)
                 ELSE <<"$", "{">> \o StepResultName(n) \o <<"}">>)

\* what an attempt has to read where the step text names the declared
\* variable
VisibleUser ==
    IF UserKey \in DOMAIN variables
    THEN PyStr(variables[UserKey])
    ELSE <<"$", "{">> \o UserKey \o <<"}">>

(***************************************************************************)
(* C11: every attempt, retries included, works on a step substituted from  *)
(* the variables as they are when the attempt starts: the text it reads    *)
(* shows the result of every earlier step that stored one, and never a     *)
(* result of its own step.                                                 *)
(***************************************************************************)
C11_SubstitutionPerAttempt ==
    /\ \A j \in DOMAIN events :
          events[j][1] = "attempt" =>
              Cardinality({c \in CallsOf("substitute", events[j][2]) :
                              call_log[c].attempt = events[j][3]}) = 1
    /\ \A c \in DOMAIN call_log :
          call_log[c].call = "substitute" =>
              call_log[c].text
                  = VisibleUser \o VisibleResults(MaxSteps, call_log[c].step)

\* a retry of step 2 reads the result step 1 stored
C11_Witness ==
    \E a, b \in DOMAIN call_log :
        /\ a < b
        /\ call_log[a].call = "result" /\ call_log[a].step = 1
        /\ call_log[b].call = "substitute" /\ call_log[b].step = 2
        /\ call_log[b].attempt = 2
        /\ call_log[b].text # StepText
        /\ step_result[2] = "True"
        /\ recipe[2].action \in ResultActions

(***************************************************************************)
(* C12: when a result-producing step at position s succeeds, the variables *)
(* map "step_<s>_result" to the text the backend returned, whatever        *)
(* happened to the steps before it.                                        *)
(***************************************************************************)
C12_ResultStoredAtStepKey ==
    \A s \in DOMAIN recipe :
        (step_result[s] = "True" /\ recipe[s].action \in ResultActions) =>
            /\ CallsOf("result", s) # {}
            /\ StepResultName(s) \in DOMAIN variables
            /\ variables[StepResultName(s)] = StrValue(ReturnedText(s))

\* step 1 failed after retries, step 2 stored its result on a retry
C12_Witness ==
    /\ Len(recipe) = 2
    /\ step_result[1] = "False"
    /\ recipe[1].retry_attempts > 1
    /\ step_result[2] = "True"
    /\ recipe[2].action = "file_read"
    /\ Count("retry", 2) > 0
    /\ StepResultName(2) \in DOMAIN variables
    /\ StepResultName(1) \notin DOMAIN variables

(* ----------------------------- C17, C18, C19 --------------------------- *)
RecipeEvents(kind) == {j \in DOMAIN events : events[j][1] = kind}

\* the run is over: execute_recipe returned or an exception left it
RunOver == pc \in {"returned", "raised"}

(***************************************************************************)
(* C17: a run emits one recipe-start event, before anything else, and,     *)
(* once it is over, one terminal event after everything else:              *)
(* recipe-complete iff the run succeeded, otherwise recipe-failure with    *)
(* the 1-based index of the step that aborted the run; never both.         *)
(***************************************************************************)
C17_StartAndOneTerminalEvent ==
    /\ events # <<>> => RecipeEvents("recipe_start") = {1}
    /\ Cardinality(RecipeEvents("recipe_complete"))
           + Cardinality(RecipeEvents("recipe_failure")) <= 1
    /\ ~RunOver =>
           RecipeEvents("recipe_complete") \cup RecipeEvents("recipe_failure") = {}
    /\ RunOver =>
           /\ RecipeEvents("recipe_complete") \cup RecipeEvents("recipe_failure")
                  = {Len(events)}
           /\ IF \E s \in DOMAIN recipe :
                    step_result[s] = "False" /\ ~recipe[s].continue_on_failure
              THEN events[Len(events)] = Ev("recipe_failure", 0, current_step)
                   /\ step_result[current_step] = "False"
              ELSE events[Len(events)] = Ev("recipe_complete", 0, Len(recipe))

\* the retry calls handed to the logger for step s
RetryCalls(s) == CallsOf("log_step_retry", s)

AttemptFailed ==
    /\ pc = "handler"
    /\ Len(events') > Len(events)
    /\ events'[Len(events) + 1] = Ev("handler_failed", current_step, attempt)

(***************************************************************************)
(* C19: an attempt that returns a falsy result is treated like one that    *)
(* raises: whichever of the two happened, the attempt counts as failed,    *)
(* it is followed by the retry event and the sleep when attempts are left  *)
(* and by the failure event and the FAILED step otherwise.                 *)
(***************************************************************************)
C19_FalsyLikeRaise ==
    [][AttemptFailed =>
          /\ last_error' \in {"RuntimeError", "Exception"}
          /\ attempt' = attempt
          /\ IF attempt < recipe[current_step].retry_attempts
             THEN /\ pc' = "sleep"
                  /\ events' = events
                        \o <<Ev("handler_failed", current_step, attempt),
                             Ev("retry", current_step, attempt)>>
                  /\ step_result' = step_result
             ELSE /\ pc' \in {"for_step", "finish"}
                  /\ events' = events
                        \o <<Ev("handler_failed", current_step, attempt),
                             Ev("step_failure", current_step, attempt),
                             Ev("failed", current_step, 0)>>
                  /\ step_result'
                         = [step_result EXCEPT ![current_step] = "False"]]_vars

\* a falsy first attempt was retried and the step failed on a raise
C19_Witness ==
    /\ pc = "for_step"
    /\ current_step = 1
    /\ recipe[1].retry_attempts = 2
    /\ step_result[1] = "False"
    /\ Count("retry", 1) = 1
    /\ Count("sleep", 1) = 1
    /\ last_error = "Exception"

Init == InitOrch(StepActions)

Next == NextOrch

Spec == Init /\ [][Next]_vars

\* recipes built without validation: a step may carry an unknown action kind
InitRaw == InitOrch(StepActions \cup {BogusAction})

SpecRaw == InitRaw /\ [][Next]_vars

(***************************************************************************)
(* SpecVars: a run over recipes with result-producing steps and declared   *)
(* variables.  Every step continues on failure, sleeps 0 seconds between   *)
(* attempts and has the smallest or the largest number of attempts.       *)
(***************************************************************************)
VarActions == ResultActions \cup {"click"}

VarStep ==
    [action : VarActions,
     text : {StepText},
     retry_attempts : {MinRetryAttempts, MaxAttempts},
     retry_delay : {0},
     continue_on_failure : {TRUE}]

VarRecipes == UNION {[1..n -> VarStep] : n \in 1..MaxSteps}

InitVars == InitRun(VarRecipes, DeclaredVariables)

NextVars ==
    \/ ExecuteRecipe
    \/ BeginStep
    \/ DispatchAttempt
    \/ AttemptSucceeds
    \/ AttemptFails
    \/ RetrySleep
    \/ FinishRecipe

SpecVars == InitVars /\ [][NextVars]_vars

(* ============ SpecSubst: one call of substitute_variables ============== *)
\* the characters of the explored texts
Alphabet == {"$", "{", "}", "a"}

Texts == UNION {[1..n -> Alphabet] : n \in 0..MaxTextLen}

\* the variables mappings of the explored calls: the name "a" is absent,
\* a str, an int, or a str that reads like a placeholder
Mappings ==
    {NoVariables,
     [k \in {<<"a">>} |-> StrValue(<<"X">>)],
     [k \in {<<"a">>} |-> IntValue(42)],
     [k \in {<<"a">>} |-> StrValue(<<"$", "{", "a", "}">>)]}

\* tests/test_dsl.py 290-313: the documented calls
HelloName == <<"H", "e", "l", "l", "o", " ", "$", "{", "n", "a", "m", "e", "}", "!">>
HelloMissing ==
    <<"H", "e", "l", "l", "o", " ", "$", "{", "m", "i", "s", "s", "i", "n", "g", "}", "!">>
TestMapping ==
    [k \in {<<"n", "a", "m", "e">>, <<"c", "o", "u", "n", "t">>} |->
        IF k = <<"n", "a", "m", "e">>
        THEN StrValue(<<"W", "o", "r", "l", "d">>)
        ELSE StrValue(<<"5">>)]

InitSubst ==
    /\ OrchOff
    /\ FindOff
    /\ WaitOff
    /\ CliOff
    /\ ProvOff
    /\ sub_pc = "called"
    /\ sub_result = <<>>
    /\ sub_step = <<>>
    /\ sub_copy = <<>>
    /\ \/ /\ sub_mapping \in Mappings
          /\ sub_text \in {StrValue(t) : t \in Texts} \cup {IntValue(123)}
       \/ /\ sub_mapping = TestMapping
          /\ sub_text \in {StrValue(HelloName), StrValue(HelloMissing)}

\* dsl.py 173-174: an argument that is no str is returned as it is
SubstituteNonStr ==
    /\ UNCHANGED <<orchVars, findVars, waitVars, cliVars, provVars>>
    /\ sub_pc = "called"
    /\ sub_text.t # "str"
    /\ sub_result' = sub_text
    /\ sub_pc' = "returned"
    /\ UNCHANGED <<sub_mapping, sub_text, sub_step, sub_copy>>

\* dsl.py 176-180: a str argument goes through re.sub
SubstituteStr ==
    /\ UNCHANGED <<orchVars, findVars, waitVars, cliVars, provVars>>
    /\ sub_pc = "called"
    /\ sub_text.t = "str"
    /\ sub_result' = StrValue(SubstituteVariables(sub_text.v, sub_mapping))
    /\ sub_pc' = "returned"
    /\ UNCHANGED <<sub_mapping, sub_text, sub_step, sub_copy>>

\* dsl.py 171-180: a second call whose argument is the value the first call
\* returned
SubstituteAgain ==
    /\ UNCHANGED <<orchVars, findVars, waitVars, cliVars, provVars>>
    /\ sub_pc = "returned"
    /\ sub_text' = sub_result
    /\ sub_result' = IF sub_result.t = "str"
                      THEN StrValue(SubstituteVariables(sub_result.v, sub_mapping))
                      ELSE sub_result
    /\ sub_pc' = "returned_again"
    /\ UNCHANGED <<sub_mapping, sub_step, sub_copy>>

NextSubst == SubstituteNonStr \/ SubstituteStr \/ SubstituteAgain

SpecSubst == InitSubst /\ [][NextSubst]_vars

(* ======== SpecStep: one call of _substitute_step_variables ============= *)
(* step.dict() is a tree of Python values; each value is tagged with its   *)
(* type.                                                                   *)
PyNone == [t |-> "none", v |-> 0]
BoolValue(b) == [t |-> "bool", v |-> b]
FloatValue(x) == [t |-> "float", v |-> x]
EnumValue(m) == [t |-> "enum", v |-> m]
DictValue(d) == [t |-> "dict", v |-> d]

\* dsl.py 24-37: the str value of the members of ActionType the explored
\* steps use
StepDictActions == {"click", "type"}

ActionChars(m) ==
    IF m = "click" THEN <<"c", "l", "i", "c", "k">> ELSE <<"t", "y", "p", "e">>

\* the strings the explored steps carry
StepStrings == {<<"o", "k">>, Placeholder(<<"a">>)}

OptStr(strings) == {PyNone} \cup {StrValue(x) : x \in strings}

\* dsl.py 40-50 WindowSelector, as a dict
WindowDicts ==
    {PyNone}
    \cup {DictValue([name |-> n, class_name |-> PyNone, process_id |-> IntValue(4242)]) :
              n \in OptStr(StepStrings)}
    \cup {DictValue([name |-> PyNone, class_name |-> StrValue(Placeholder(<<"a">>)),
                     process_id |-> PyNone])}

\* dsl.py 53-62 ElementSelector, as a dict
ElementDicts ==
    {PyNone}
    \cup {DictValue([automation_id |-> StrValue(Placeholder(<<"a">>)),
                     control_type |-> PyNone, class_name |-> PyNone,
                     name |-> StrValue(<<"o", "k">>), value |-> PyNone,
                     help_text |-> PyNone, accessible_name |-> PyNone,
                     index |-> ix]) : ix \in {IntValue(1), PyNone}}

\* dsl.py 100 Target.region
RegionDicts ==
    {PyNone,
     DictValue([x |-> IntValue(0), y |-> IntValue(5), width |-> IntValue(30),
                height |-> IntValue(20)])}

\* dsl.py 93-100 Target, as a dict
TargetDicts ==
    {DictValue([app |-> ap, window |-> w, element |-> e, file_path |-> fp,
                text |-> tx, region |-> r]) :
        ap \in OptStr({Placeholder(<<"a">>)}), w \in WindowDicts,
        e \in ElementDicts, fp \in OptStr({<<"f">> \o Placeholder(<<"a">>)}),
        tx \in OptStr({Placeholder(<<"a">>) \o Placeholder(<<"b">>)}),
        r \in RegionDicts}

\* dsl.py 119-128 ActionStep, as step.dict() returns it
StepDicts ==
    {DictValue([name |-> StrValue(nm), action |-> EnumValue(ac), target |-> tg,
                timeout |-> IntValue(10), retry_attempts |-> IntValue(3),
                retry_delay |-> FloatValue(rd), verify_after |-> BoolValue(va),
                continue_on_failure |-> BoolValue(FALSE)]) :
        nm \in StepStrings, ac \in StepDictActions, tg \in TargetDicts,
        rd \in {-1, 1}, va \in BOOLEAN}

\* the variables mappings of the explored calls
StepMappings ==
    {NoVariables,
     [k \in {<<"a">>} |-> IntValue(7)],
     [k \in {<<"a">>} |-> StrValue(<<"X", "Y">>)]}

\* mutation: only the top-level values are substituted
SubstituteRecursive_Shallow(obj, mapping) ==
    IF obj.t = "dict"
    THEN DictValue([k \in DOMAIN obj.v |->
                       IF obj.v[k].t = "str"
                       THEN StrValue(SubstituteVariables(obj.v[k].v, mapping))
                       ELSE obj.v[k]])
    ELSE obj

(***************************************************************************)
(* main.py 188-196 substitute_recursive: a str is substituted (a member of *)
(* ActionType is a str and comes back as a plain str), a dict is rebuilt   *)
(* with its values substituted, anything else is returned as it is.       *)
(***************************************************************************)
RECURSIVE SubstituteRecursive(_, _)
SubstituteRecursive(obj, mapping) ==
    IF obj.t = "str" THEN StrValue(SubstituteVariables(obj.v, mapping))
    ELSE IF obj.t = "enum"
    THEN StrValue(SubstituteVariables(ActionChars(obj.v), mapping))
    ELSE IF obj.t = "dict"
    THEN DictValue([k \in DOMAIN obj.v |-> SubstituteRecursive(obj.v[k], mapping)])
    ELSE obj

\* dsl.py 122: the action of ActionStep(**d) is parsed back into ActionType
IsAction(value) ==
    \/ value.t = "enum"
    \/ value.t = "str" /\ \E m \in StepDictActions : ActionChars(m) = value.v

ParseAction(value) ==
    IF value.t = "enum" THEN value
    ELSE EnumValue(CHOOSE m \in StepDictActions : ActionChars(m) = value.v)

\* dsl.py 46-50 WindowSelector.validate_name: "if v and len(v) < 2" raises
ValidateNameRaises(v) ==
    /\ v.t = "str"
    /\ v.v # <<>>
    /\ Len(v.v) < MinWindowNameLen

WindowNameRejected(w) ==
    /\ w.t = "dict"
    /\ ValidateNameRaises(w.v.name)

\* main.py 199 ActionStep(**substituted_dict): the validators run again
StepAccepted(d) ==
    /\ IsAction(d.v.action)
    /\ ~WindowNameRejected(d.v.target.v.window)

RebuiltStep(d) == DictValue([d.v EXCEPT !.action = ParseAction(@)])

InitStep ==
    /\ OrchOff
    /\ FindOff
    /\ WaitOff
    /\ CliOff
    /\ ProvOff
    /\ sub_pc = "step_called"
    /\ sub_text = <<>>
    /\ sub_result = <<>>
    /\ sub_copy = <<>>
    /\ sub_mapping \in StepMappings
    /\ sub_step \in StepDicts

\* main.py 181-182: without variables the step itself is returned
SubstituteStepNoVariables ==
    /\ UNCHANGED <<orchVars, findVars, waitVars, cliVars, provVars>>
    /\ sub_pc = "step_called"
    /\ DOMAIN sub_mapping = {}
    /\ sub_copy' = sub_step
    /\ sub_pc' = "step_returned"
    /\ UNCHANGED <<sub_mapping, sub_text, sub_result, sub_step>>

\* main.py 185-199: the substituted dict passes validation
SubstituteStepCopy ==
    /\ UNCHANGED <<orchVars, findVars, waitVars, cliVars, provVars>>
    /\ sub_pc = "step_called"
    /\ DOMAIN sub_mapping # {}
    /\ StepAccepted(SubstituteRecursive(sub_step, sub_mapping))
    /\ sub_copy' = RebuiltStep(SubstituteRecursive(sub_step, sub_mapping))
    /\ sub_pc' = "step_returned"
    /\ UNCHANGED <<sub_mapping, sub_text, sub_result, sub_step>>

\* main.py 199: the substituted dict is rejected, ValidationError is raised
SubstituteStepRaises ==
    /\ UNCHANGED <<orchVars, findVars, waitVars, cliVars, provVars>>
    /\ sub_pc = "step_called"
    /\ DOMAIN sub_mapping # {}
    /\ ~StepAccepted(SubstituteRecursive(sub_step, sub_mapping))
    /\ sub_copy' = [t |-> "raise", v |-> "ValidationError"]
    /\ sub_pc' = "step_raised"
    /\ UNCHANGED <<sub_mapping, sub_text, sub_result, sub_step>>

NextStep ==
    \/ SubstituteStepNoVariables
    \/ SubstituteStepCopy
    \/ SubstituteStepRaises

SpecStep == InitStep /\ [][NextStep]_vars

(* ====== SpecWait: one call of wait_for_window / wait_for_element ======= *)
\* how long one evaluation of the readiness predicate takes, in ticks
EvalTicks == {0, 1}

\* how long time.sleep(0.5) takes: the half second or longer
SleepDurations == {SleepTicks, SleepTicks + 1}

\* mutation: the loop goes on for one more second
Expired_Late(now, timeout) == now >= (timeout + 1) * TicksPerSecond

\* ui.py 49, 86: "while time.time() - start_time < timeout" is left
Expired(now, timeout) == now >= timeout * TicksPerSecond

\* mutation: the failure event always carries the TimeoutError
ReportedError_AlwaysTimeout(last) == "TimeoutError"

\* ui.py 64, 101: error = last_error or TimeoutError(...)
ReportedError(last) == IF last # 0 THEN "last_error" ELSE "TimeoutError"

\* an entry of the trace of a wait
Tr(what, at) == [what |-> what, at |-> at]

\* what the wait hands to the logger: the event and, for a failure, the
\* error (raised_by: the evaluation that raised it, 0: none)
Lg(event, error, raised_by) ==
    [event |-> event, error |-> error, raised_by |-> raised_by]

Evaluations == {j \in DOMAIN wt_trace : wt_trace[j].what # "sleep"}

InitWait ==
    /\ OrchOff
    /\ FindOff
    /\ SubstOff
    /\ CliOff
    /\ ProvOff
    /\ wt_pc = "called"
    /\ wt_kind \in {"wait_for_window", "wait_for_element"}
    /\ wt_timeout \in MinTimeout..MaxTimeout
    /\ wt_now = 0
    /\ wt_last_error = 0
    /\ wt_trace = <<>>
    /\ wt_log = <<>>
    /\ wt_ret = "pending"

\* ui.py 43-47, 80-84: log the start, take start_time, last_error = None
WaitStart ==
    /\ UNCHANGED <<orchVars, findVars, substVars, cliVars, provVars>>
    /\ wt_pc = "called"
    /\ wt_log' = Append(wt_log, Lg("start", None, 0))
    /\ wt_now' = 0
    /\ wt_last_error' = 0
    /\ wt_pc' = "loop"
    /\ UNCHANGED <<wt_kind, wt_timeout, wt_trace, wt_ret>>

\* ui.py 49, 86: the loop test passes
WaitLoop ==
    /\ UNCHANGED <<orchVars, findVars, substVars, cliVars, provVars>>
    /\ wt_pc = "loop"
    /\ ~Expired(wt_now, wt_timeout)
    /\ wt_pc' = "eval"
    /\ UNCHANGED <<wt_kind, wt_timeout, wt_now, wt_last_error, wt_trace,
                   wt_log, wt_ret>>

\* ui.py 51-56, 88-91: the target is found, visible and ready
WaitReady ==
    /\ UNCHANGED <<orchVars, findVars, substVars, cliVars, provVars>>
    /\ wt_pc = "eval"
    /\ \E d \in EvalTicks : wt_now' = wt_now + d
    /\ wt_trace' = Append(wt_trace, Tr("ready", wt_now))
    /\ wt_log' = Append(wt_log, Lg("success", None, 0))
    /\ wt_ret' = "True"
    /\ wt_pc' = "done"
    /\ UNCHANGED <<wt_kind, wt_timeout, wt_last_error>>

\* ui.py 51-58, 88-93: the target is not there or not ready
WaitNotReady ==
    /\ UNCHANGED <<orchVars, findVars, substVars, cliVars, provVars>>
    /\ wt_pc = "eval"
    /\ \E d \in EvalTicks : wt_now' = wt_now + d
    /\ wt_trace' = Append(wt_trace, Tr("not_ready", wt_now))
    /\ wt_pc' = "sleep"
    /\ UNCHANGED <<wt_kind, wt_timeout, wt_last_error, wt_log, wt_ret>>

\* ui.py 60-61, 97-98: the evaluation raises; the exception is kept
WaitRaises ==
    /\ UNCHANGED <<orchVars, findVars, substVars, cliVars, provVars>>
    /\ wt_pc = "eval"
    /\ \E d \in EvalTicks : wt_now' = wt_now + d
    /\ wt_trace' = Append(wt_trace, Tr("raise", wt_now))
    /\ wt_last_error' = Cardinality(Evaluations) + 1
    /\ wt_pc' = "sleep"
    /\ UNCHANGED <<wt_kind, wt_timeout, wt_log, wt_ret>>

\* ui.py 58, 62, 95, 99: time.sleep(0.5), then the loop test again
WaitSleep ==
    /\ UNCHANGED <<orchVars, findVars, substVars, cliVars, provVars>>
    /\ wt_pc = "sleep"
    /\ \E d \in SleepDurations :
          /\ wt_now' = wt_now + d
          /\ wt_trace' = Append(wt_trace, Tr("sleep", wt_now + d))
    /\ wt_pc' = "loop"
    /\ UNCHANGED <<wt_kind, wt_timeout, wt_last_error, wt_log, wt_ret>>

\* ui.py 64-66, 101-103: the loop is left; log the failure, return False
WaitTimesOut ==
    /\ UNCHANGED <<orchVars, findVars, substVars, cliVars, provVars>>
    /\ wt_pc = "loop"
    /\ Expired(wt_now, wt_timeout)
    /\ wt_log' = Append(wt_log,
                        Lg("failure", ReportedError(wt_last_error), wt_last_error))
    /\ wt_ret' = "False"
    /\ wt_pc' = "done"
    /\ UNCHANGED <<wt_kind, wt_timeout, wt_now, wt_last_error, wt_trace>>

NextWait ==
    \/ WaitStart
    \/ WaitLoop
    \/ WaitReady
    \/ WaitNotReady
    \/ WaitRaises
    \/ WaitSleep
    \/ WaitTimesOut

(***************************************************************************)
(* The thread of the wait keeps running: an evaluation and a sleep return, *)
(* so a step that is possible is eventually taken.                         *)
(***************************************************************************)
SpecWait == InitWait /\ [][NextWait]_vars /\ WF_vars(NextWait)

(* =================== SpecRun: the CLI command run ====================== *)
\* the file at recipe_path: missing, not a valid recipe, or a recipe
RecipeFiles ==
    {[status |-> "missing", steps |-> <<>>],
     [status |-> "invalid", steps |-> <<>>]}
    \cup {[status |-> "valid", steps |-> r] : r \in Recipes(StepActions)}

(***************************************************************************)
(* ocr.py 19-41 OCRProvider.__init__: the constructor imports pytesseract  *)
(* and runs image_to_string on a blank image to see whether the engine is  *)
(* there.  Any exception goes to log_step_failure, which takes a           *)
(* screenshot (logger.py 78-80, 151-164).                                  *)
(***************************************************************************)
OcrInitOutcomes == {"available", "import_raised", "probe_raised"}

OcrInitCalls(outcome) ==
    IF outcome = "available" THEN <<"ocr.image_to_string">>
    ELSE IF outcome = "probe_raised"
    THEN <<"ocr.image_to_string", "screen.screenshot">>
    ELSE <<"screen.screenshot">>

\* main.py 398-400: a dry run returns before execute_recipe
ReturnsBeforeExecute(dry) == dry

InitCli ==
    /\ OrchOff
    /\ FindOff
    /\ SubstOff
    /\ WaitOff
    /\ ProvOff
    /\ cli_pc = "start"
    /\ cli_file \in RecipeFiles
    /\ dry_run \in BOOLEAN
    /\ cli_calls = <<>>
    /\ cli_exit = -1

\* main.py 388-390: the file is missing, sys.exit(1)
RunFileMissing ==
    /\ UNCHANGED <<orchVars, findVars, substVars, waitVars, provVars>>
    /\ cli_pc = "start"
    /\ cli_file.status = "missing"
    /\ cli_exit' = 1
    /\ cli_pc' = "exited"
    /\ UNCHANGED <<cli_file, dry_run, cli_calls>>

\* main.py 392, 33-42: AutomationOrchestrator() builds the four providers
RunConstruct ==
    /\ UNCHANGED <<orchVars, findVars, substVars, waitVars, provVars>>
    /\ cli_pc = "start"
    /\ cli_file.status # "missing"
    /\ \E outcome \in OcrInitOutcomes :
          cli_calls' = cli_calls \o OcrInitCalls(outcome)
    /\ cli_pc' = "constructed"
    /\ UNCHANGED <<cli_file, dry_run, cli_exit>>

\* main.py 395-396, 44-68: load_recipe returns False, sys.exit(1)
RunLoadFails ==
    /\ UNCHANGED <<orchVars, findVars, substVars, waitVars, provVars>>
    /\ cli_pc = "constructed"
    /\ cli_file.status = "invalid"
    /\ cli_exit' = 1
    /\ cli_pc' = "exited"
    /\ UNCHANGED <<cli_file, dry_run, cli_calls>>

(***************************************************************************)
(* main.py 395-405: the recipe is loaded; a dry run prints and returns,    *)
(* otherwise execute_recipe is called.                                     *)
(***************************************************************************)
RunLoad ==
    /\ UNCHANGED <<findVars, substVars, waitVars, provVars>>
    /\ cli_pc = "constructed"
    /\ cli_file.status = "valid"
    /\ recipe' = cli_file.steps
    /\ step_result' = [s \in DOMAIN cli_file.steps |-> "pending"]
    /\ IF ReturnsBeforeExecute(dry_run)
       THEN /\ cli_pc' = "exited"
            /\ cli_exit' = 0
            /\ pc' = pc
       ELSE /\ cli_pc' = "running"
            /\ cli_exit' = cli_exit
            /\ pc' = "loaded"
    /\ UNCHANGED <<i, current_step, attempt, success, last_error, inflight,
                   events, ret, variables, call_log, cli_file, dry_run,
                   cli_calls>>

\* main.py 403-407: execute_recipe returned; cleanup, sys.exit(0 or 1)
RunExit ==
    /\ UNCHANGED <<orchVars, findVars, substVars, waitVars, provVars>>
    /\ cli_pc = "running"
    /\ pc = "returned"
    /\ cli_exit' = IF ret = "True" THEN 0 ELSE 1
    /\ cli_pc' = "exited"
    /\ UNCHANGED <<cli_file, dry_run, cli_calls>>

\* main.py 403-407: execute_recipe raised; cleanup, the exception ends the
\* command with exit code 1
RunRaised ==
    /\ UNCHANGED <<orchVars, findVars, substVars, waitVars, provVars>>
    /\ cli_pc = "running"
    /\ pc = "raised"
    /\ cli_exit' = 1
    /\ cli_pc' = "exited"
    /\ UNCHANGED <<cli_file, dry_run, cli_calls>>

NextCli ==
    \/ RunFileMissing
    \/ RunConstruct
    \/ RunLoadFails
    \/ RunLoad
    \/ NextOrch
    \/ RunExit
    \/ RunRaised

SpecRun == InitCli /\ [][NextCli]_vars

(* ============ SpecCache: the connection caches of the providers ======== *)
\* the application identities explored
CacheApps == {"a.exe", "b.exe"}

\* a dictionary without the key k
Drop(mapping, key) == [k \in DOMAIN mapping \ {key} |-> mapping[k]]

\* dict.get(key): 0 stands for None
Get(mapping, key) == IF key \in DOMAIN mapping THEN mapping[key] ELSE 0

\* what an operation leaves in cache_op
Op(name, app, outcome) == [op |-> name, app |-> app, outcome |-> outcome]

\* psutil.process_iter: the pid of the running process of that name, or None
FindProcessByName(app) == Get(processes, app)

\* what the process scan of _find_existing_process can do
ScanOutcomes == {"scanned", "scan_raised"}

\* process.py 207-215 _find_existing_process: the pid the scan reports; an
\* exception raised while scanning is swallowed and None (0) is returned
FindExistingProcess(app, scan) ==
    IF scan = "scan_raised" THEN 0 ELSE FindProcessByName(app)

InitCache ==
    /\ OrchOff
    /\ FindOff
    /\ SubstOff
    /\ WaitOff
    /\ CliOff
    /\ FsOff
    /\ DslOff
    /\ UiOff
    /\ ui_applications = NoApps
    /\ proc_applications = NoApps
    /\ launched_processes = NoApps
    /\ processes \in [CacheApps -> {0}]
    /\ handles = 0
    /\ pids = 0
    /\ cache_op = Op("init", None, "ok")

(***************************************************************************)
(* ui.py 352-385 UIProvider._find_window with an app_name: a cached        *)
(* connection is used as it is; otherwise connect(path=app_name) is tried  *)
(* and its result is cached, a failure being swallowed.                    *)
(***************************************************************************)
UIFindWindow(app) ==
    /\ UNCHANGED <<orchVars, findVars, substVars, waitVars, cliVars, fsVars,
                   dslVars, uiVars>>
    /\ IF app \in DOMAIN ui_applications
       THEN /\ cache_op' = Op("find_window", app, "cached")
            /\ UNCHANGED <<ui_applications, handles>>
       ELSE \/ /\ processes[app] # 0
               /\ handles < MaxHandles
               /\ handles' = handles + 1
               /\ ui_applications' = Store(ui_applications, app, handles + 1)
               /\ cache_op' = Op("find_window", app, "connected")
            \/ /\ cache_op' = Op("find_window", app, "connect_raised")
               /\ UNCHANGED <<ui_applications, handles>>
    /\ UNCHANGED <<proc_applications, launched_processes, processes, pids>>

\* process.py 227-243 _wait_for_application_ready: the connection made once
\* the application answers is stored under app_name, whatever was there
WaitForApplicationReady(cache, app, handle) == Store(cache, app, handle)

(***************************************************************************)
(* process.py 26-82 launch_application: an application the scan reports as *)
(* running is only recorded; otherwise a process is started, recorded, and *)
(* (with wait_for_ready) connected to.                                     *)
(***************************************************************************)
LaunchApplication(app) ==
    /\ UNCHANGED <<orchVars, findVars, substVars, waitVars, cliVars, fsVars,
                   dslVars, uiVars>>
    /\ \E scan \in ScanOutcomes :
          LET existing_pid == FindExistingProcess(app, scan)
              \* process.py 69-71: the pid a second scan reports, or, when it
              \* reports none or raises, the pid of the process just started
              ActualPids == {pids + 1} \cup ({FindProcessByName(app)} \ {0})
          IN
          IF existing_pid # 0
          THEN /\ launched_processes' =
                      Store(launched_processes, app, existing_pid)
               /\ cache_op' = Op("launch", app, "already_running")
               /\ UNCHANGED <<proc_applications, processes, handles, pids>>
          ELSE \/ \* the process exited immediately: RuntimeError
                  /\ cache_op' = Op("launch", app, "raised")
                  /\ UNCHANGED <<proc_applications, launched_processes,
                                 processes, handles, pids>>
               \/ \* started; never ready within the timeout: RuntimeError
                  /\ pids < MaxPids
                  /\ pids' = pids + 1
                  /\ \E actual_pid \in ActualPids :
                        /\ processes' = [processes EXCEPT ![app] = actual_pid]
                        /\ launched_processes' =
                               Store(launched_processes, app, actual_pid)
                  /\ cache_op' = Op("launch", app, "not_ready")
                  /\ UNCHANGED <<proc_applications, handles>>
               \/ \* started and ready
                  /\ pids < MaxPids
                  /\ handles < MaxHandles
                  /\ pids' = pids + 1
                  /\ handles' = handles + 1
                  /\ \E actual_pid \in ActualPids :
                        /\ processes' = [processes EXCEPT ![app] = actual_pid]
                        /\ launched_processes' =
                               Store(launched_processes, app, actual_pid)
                  /\ proc_applications' =
                         WaitForApplicationReady(proc_applications, app,
                                                 handles + 1)
                  /\ cache_op' = Op("launch", app, "launched")
    /\ UNCHANGED ui_applications

\* process.py 162-166: a terminated application is forgotten
ForgetTerminated(cache, app) == Drop(cache, app)

(***************************************************************************)
(* process.py 120-173 terminate_application: nothing to do when no process *)
(* is known or found; psutil.Process raises for a pid that is gone; a      *)
(* graceful termination may time out; after a termination both             *)
(* dictionaries drop the application.                                      *)
(***************************************************************************)
TerminateApplication(app) ==
    /\ UNCHANGED <<orchVars, findVars, substVars, waitVars, cliVars, fsVars,
                   dslVars, uiVars>>
    /\ LET known == Get(launched_processes, app)
           pid == IF known # 0 THEN known ELSE FindProcessByName(app)
       IN  IF pid = 0
           THEN /\ cache_op' = Op("terminate", app, "not_running")
                /\ UNCHANGED <<proc_applications, launched_processes,
                               processes>>
           ELSE IF processes[app] # pid
           THEN /\ cache_op' = Op("terminate", app, "no_such_process")
                /\ UNCHANGED <<proc_applications, launched_processes,
                               processes>>
           ELSE \/ /\ cache_op' = Op("terminate", app, "timed_out")
                   /\ UNCHANGED <<proc_applications, launched_processes,
                                  processes>>
                \/ /\ processes' = [processes EXCEPT ![app] = 0]
                   /\ launched_processes' = Drop(launched_processes, app)
                   /\ proc_applications' =
                          ForgetTerminated(proc_applications, app)
                   /\ cache_op' = Op("terminate", app, "terminated")
    /\ UNCHANGED <<ui_applications, handles, pids>>

(***************************************************************************)
(* process.py 245-275 _get_or_connect_application, called by               *)
(* bring_to_foreground and get_application_windows: a cached connection is *)
(* returned; otherwise one is made and cached, or RuntimeError is raised.  *)
(***************************************************************************)
GetOrConnectApplication(app) ==
    /\ UNCHANGED <<orchVars, findVars, substVars, waitVars, cliVars, fsVars,
                   dslVars, uiVars>>
    /\ IF app \in DOMAIN proc_applications
       THEN /\ cache_op' = Op("get_or_connect", app, "cached")
            /\ UNCHANGED <<proc_applications, handles>>
       ELSE \/ /\ processes[app] # 0
               /\ handles < MaxHandles
               /\ handles' = handles + 1
               /\ proc_applications' =
                      Store(proc_applications, app, handles + 1)
               /\ cache_op' = Op("get_or_connect", app, "connected")
            \/ /\ cache_op' = Op("get_or_connect", app, "raised")
               /\ UNCHANGED <<proc_applications, handles>>
    /\ UNCHANGED <<ui_applications, launched_processes, processes, pids>>

\* the application is closed from outside the program
ProcessExits(app) ==
    /\ UNCHANGED <<orchVars, findVars, substVars, waitVars, cliVars, fsVars,
                   dslVars, uiVars>>
    /\ processes[app] # 0
    /\ processes' = [processes EXCEPT ![app] = 0]
    /\ cache_op' = Op("process_exits", app, "ok")
    /\ UNCHANGED <<ui_applications, proc_applications, launched_processes,
                   handles, pids>>

\* main.py 372-375 cleanup: process.py 277-280 and ui.py 480-483
Cleanup_KeepsEntries(cache) == cache

Cleanup(cache) == NoApps

CacheCleanup ==
    /\ UNCHANGED <<orchVars, findVars, substVars, waitVars, cliVars, fsVars,
                   dslVars, uiVars>>
    /\ proc_applications' = Cleanup(proc_applications)
    /\ launched_processes' = Cleanup(launched_processes)
    /\ ui_applications' = Cleanup(ui_applications)
    /\ cache_op' = Op("cleanup", None, "ok")
    /\ UNCHANGED <<processes, handles, pids>>

NextCache ==
    \/ \E app \in CacheApps : UIFindWindow(app)
    \/ \E app \in CacheApps : LaunchApplication(app)
    \/ \E app \in CacheApps : TerminateApplication(app)
    \/ \E app \in CacheApps : GetOrConnectApplication(app)
    \/ \E app \in CacheApps : ProcessExits(app)
    \/ CacheCleanup

SpecCache == InitCache /\ [][NextCache]_vars

(* ============ SpecFs: one FileSystemProvider operation ================= *)
\* a path is a sequence of components; ".." is the parent directory
PathParts == {"w", "o", "l", ".."}

PathSeqs == UNION {[1..n -> PathParts] : n \in 0..MaxPathLen}

\* a path argument: relative to the working directory or absolute
\* (rel with no parts is the empty string, absolute with no parts the root)
PathArgs == [rel : BOOLEAN, parts : PathSeqs]

\* the machine the provider runs on: the working directory /w, a directory
\* /o outside of it, and a symbolic link /w/l that points to /o
Cwd == <<"w">>

Links == [p \in {<<"w", "l">>} |-> <<"o">>]

InitialFiles ==
    [p \in {<<"w", "w">>, <<"o", "o">>} |->
        IF p = <<"w", "w">> THEN "in" ELSE "secret"]

InitialDirs == {<<>>, <<"w">>, <<"w", "artifacts">>, <<"o">>, <<"t">>}

\* fs.py 25-32: the working directory, its artifacts directory, the
\* temporary directory
AllowedPaths == {Cwd, Cwd \o <<"artifacts">>, <<"t">>}

\* the content write_file is given
NewContent == "new"

Parent(path) == IF path = <<>> THEN <<>> ELSE SubSeq(path, 1, Len(path) - 1)

RECURSIVE NormPath(_, _)
\* os.path.normpath on the components: ".." removes the component before it
NormPath(done, rest) ==
    IF rest = <<>> THEN done
    ELSE IF Head(rest) = ".." THEN NormPath(Parent(done), Tail(rest))
    ELSE NormPath(Append(done, Head(rest)), Tail(rest))

\* os.path.abspath: join to the working directory, then normalise
AbsPath(path) ==
    NormPath(<<>>, (IF path.rel THEN Cwd ELSE <<>>) \o path.parts)

RECURSIVE FollowLinks(_, _)
\* the file a path names once the symbolic links on the way are followed
FollowLinks(done, rest) ==
    IF rest = <<>> THEN done
    ELSE LET next == Append(done, Head(rest))
         IN  IF next \in DOMAIN Links
             THEN FollowLinks(Links[next], Tail(rest))
             ELSE FollowLinks(next, Tail(rest))

\* what open(), os.path.exists() and shutil act on
RealPath(abs) == FollowLinks(<<>>, abs)

\* pathlib.Path.resolve()
PathResolve(abs) == FollowLinks(<<>>, abs)

\* pathlib.PurePath.is_relative_to: base is a prefix, component by component
IsRelativeTo(path, base) ==
    /\ Len(base) <= Len(path)
    /\ SubSeq(path, 1, Len(base)) = base

\* fs.py 361-370 of a check that compares the paths as they are written
PathAllowed_Unresolved(abs) ==
    \E allowed \in AllowedPaths : IsRelativeTo(abs, allowed)

\* fs.py 361-370: the resolved path lies under a resolved allowed base
PathAllowed(abs) ==
    \E allowed \in AllowedPaths :
        IsRelativeTo(PathResolve(abs), PathResolve(allowed))

\* os.path.exists
Exists(fs, ds, abs) == RealPath(abs) \in DOMAIN fs \/ RealPath(abs) \in ds

\* what an operation did: its kind and the path it acted on
Touch(kind, path) == <<kind, path>>

(***************************************************************************)
(* fs.py 339-379 _validate_path: the path it returns, or the exception.    *)
(***************************************************************************)
ValidatePath(fs, ds, path, must_exist) ==
    IF path.rel /\ path.parts = <<>>
    THEN [ok |-> FALSE, abs |-> <<>>, error |-> "ValueError"]
    ELSE LET abs == AbsPath(path)
         IN  IF ~PathAllowed(abs)
             THEN [ok |-> FALSE, abs |-> abs, error |-> "ValueError"]
             ELSE IF must_exist /\ ~Exists(fs, ds, abs)
             THEN [ok |-> FALSE, abs |-> abs, error |-> "FileNotFoundError"]
             ELSE [ok |-> TRUE, abs |-> abs, error |-> None]

\* the prefixes of a path, the path included
Prefixes(path) == {SubSeq(path, 1, n) : n \in 0..Len(path)}

\* os.makedirs(path, exist_ok=True) raises when a file is in the way
MakedirsRaises(fs, abs) == \E q \in Prefixes(RealPath(abs)) : q \in DOMAIN fs

Makedirs(ds, abs) == ds \cup Prefixes(RealPath(abs))

\* open(path, 'w') raises on a directory and in a directory that is missing
OpenForWriteRaises(ds, abs) ==
    \/ RealPath(abs) \in ds
    \/ Parent(RealPath(abs)) \notin ds

\* the state of the machine and of the call after an operation
FsResult(fs, ds, trace, result) ==
    [files |-> fs, dirs |-> ds, trace |-> trace, ret |-> result]

Returned(v) == [t |-> "return", v |-> v]

Raised(error) == [t |-> "raise", v |-> error]

(***************************************************************************)
(* fs.py 34-59 read_file: validate (the file must exist), open, read; any  *)
(* exception is logged and raised again.                                   *)
(***************************************************************************)
ReadFile(fs, ds, path) ==
    LET v     == ValidatePath(fs, ds, path, TRUE)
        trace == <<Touch("validate", v.abs)>>
        real  == RealPath(v.abs)
    IN  IF ~v.ok THEN FsResult(fs, ds, trace, Raised(v.error))
        ELSE IF real \notin DOMAIN fs
        THEN FsResult(fs, ds, trace, Raised("IsADirectoryError"))
        ELSE FsResult(fs, ds, Append(trace, Touch("read", real)),
                      Returned(fs[real]))

(***************************************************************************)
(* fs.py 61-94 write_file: validate, create the parent directories when    *)
(* asked, open for writing, write; any exception is logged and the result  *)
(* is False.                                                               *)
(***************************************************************************)
WriteFile(fs, ds, path, content, create_dirs) ==
    LET v      == ValidatePath(fs, ds, path, FALSE)
        trace  == <<Touch("validate", v.abs)>>
        parent == Parent(v.abs)
        made   == create_dirs /\ ~MakedirsRaises(fs, parent)
        ds2    == IF made THEN Makedirs(ds, parent) ELSE ds
        trace2 == IF made /\ ds2 # ds
                  THEN Append(trace, Touch("mkdir", RealPath(parent)))
                  ELSE trace
        real   == RealPath(v.abs)
    IN  IF ~v.ok THEN FsResult(fs, ds, trace, Returned(FALSE))
        ELSE IF create_dirs /\ MakedirsRaises(fs, parent)
        THEN FsResult(fs, ds, trace, Returned(FALSE))
        ELSE IF OpenForWriteRaises(ds2, v.abs)
        THEN FsResult(fs, ds2, trace2, Returned(FALSE))
        ELSE FsResult(Store(fs, real, content), ds2,
                      Append(trace2, Touch("write", real)), Returned(TRUE))

(***************************************************************************)
(* fs.py 125-158 copy_file: validate the source (it must exist) and the    *)
(* destination, refuse an existing destination unless overwrite, create    *)
(* the destination directory, shutil.copy2; any exception is logged and    *)
(* the result is False.  copy2 onto a directory copies into it under the   *)
(* name of the source.                                                     *)
(***************************************************************************)
CopyFile(fs, ds, source_path, dest_path, overwrite) ==
    LET vs     == ValidatePath(fs, ds, source_path, TRUE)
        trace  == <<Touch("validate", vs.abs)>>
        vd     == ValidatePath(fs, ds, dest_path, FALSE)
        trace2 == Append(trace, Touch("validate", vd.abs))
        parent == Parent(vd.abs)
        ds2    == Makedirs(ds, parent)
        trace3 == IF ds2 # ds
                  THEN Append(trace2, Touch("mkdir", RealPath(parent)))
                  ELSE trace2
        src    == RealPath(vs.abs)
        dst    == IF RealPath(vd.abs) \in ds2 /\ vs.abs # <<>>
                  THEN Append(RealPath(vd.abs), vs.abs[Len(vs.abs)])
                  ELSE RealPath(vd.abs)
    IN  IF ~vs.ok THEN FsResult(fs, ds, trace, Returned(FALSE))
        ELSE IF ~vd.ok THEN FsResult(fs, ds, trace2, Returned(FALSE))
        ELSE IF Exists(fs, ds, vd.abs) /\ ~overwrite
        THEN FsResult(fs, ds, trace2, Returned(FALSE))
        ELSE IF MakedirsRaises(fs, parent)
        THEN FsResult(fs, ds, trace2, Returned(FALSE))
        ELSE IF \/ src \notin DOMAIN fs
                \/ src = dst
                \/ dst \in ds2
                \/ Parent(dst) \notin ds2
        THEN FsResult(fs, ds2, trace3, Returned(FALSE))
        ELSE FsResult(Store(fs, dst, fs[src]), ds2,
                      trace3 \o <<Touch("read", src), Touch("write", dst)>>,
                      Returned(TRUE))

NoPath == [rel |-> TRUE, parts |-> <<>>]

FsCalls ==
    [op : {"read_file"}, path : PathArgs, dest : {NoPath}, flag : {FALSE}]
    \cup [op : {"write_file"}, path : PathArgs, dest : {NoPath},
          flag : BOOLEAN]
    \cup [op : {"copy_file"}, path : PathArgs, dest : PathArgs,
          flag : BOOLEAN]

InitFs ==
    /\ OrchOff
    /\ FindOff
    /\ SubstOff
    /\ WaitOff
    /\ CliOff
    /\ CacheOff
    /\ DslOff
    /\ UiOff
    /\ fs_pc = "called"
    /\ fs_call \in FsCalls
    /\ files = InitialFiles
    /\ dirs = InitialDirs
    /\ fs_trace = <<>>
    /\ fs_ret = None

FsDone(result) ==
    /\ UNCHANGED <<orchVars, findVars, substVars, waitVars, cliVars,
                   cacheVars, dslVars, uiVars>>
    /\ fs_pc = "called"
    /\ fs_pc' = "done"
    /\ files' = result.files
    /\ dirs' = result.dirs
    /\ fs_trace' = result.trace
    /\ fs_ret' = result.ret
    /\ UNCHANGED fs_call

FsReadFile ==
    /\ fs_call.op = "read_file"
    /\ FsDone(ReadFile(files, dirs, fs_call.path))

FsWriteFile ==
    /\ fs_call.op = "write_file"
    /\ FsDone(WriteFile(files, dirs, fs_call.path, NewContent, fs_call.flag))

FsCopyFile ==
    /\ fs_call.op = "copy_file"
    /\ FsDone(CopyFile(files, dirs, fs_call.path, fs_call.dest,
                       fs_call.flag))

NextFs ==
    \/ FsReadFile
    \/ FsWriteFile
    \/ FsCopyFile

SpecFs == InitFs /\ [][NextFs]_vars

(* ============ SpecDsl: one call of the recipe data model =============== *)
\* dsl.py 130-134 of a validator whose lower limit is exclusive
TimeoutRejected_ExclusiveLow(v) == v <= MinTimeout \/ v > TimeoutLimit

\* dsl.py 130-134 validate_timeout
TimeoutRejected(v) == v < MinTimeout \/ v > TimeoutLimit

\* dsl.py 136-140 validate_retry_attempts
RetryAttemptsRejected(v) == v < MinRetryAttempts \/ v > RetryAttemptsLimit

\* dsl.py 126: retry_delay is a float Field without validator
RetryDelayRejected(v) == FALSE

\* dsl.py 119-140 ActionStep(...): the fields whose validation fails
StepErrors(step) ==
    {f \in {"timeout", "retry_attempts", "retry_delay"} :
        \/ f = "timeout" /\ TimeoutRejected(step.timeout)
        \/ f = "retry_attempts" /\ RetryAttemptsRejected(step.retry_attempts)
        \/ f = "retry_delay" /\ RetryDelayRejected(step.retry_delay)}

\* dsl.py 159-165 of a validator that rejects the hundredth step
StepsRejected_OffByOne(steps) == Len(steps) = 0 \/ Len(steps) >= StepCountLimit

\* dsl.py 159-165 validate_steps: "not v" or len(v) > 100
StepsRejected(steps) == Len(steps) = 0 \/ Len(steps) > StepCountLimit

\* the characters of the explored recipe names
NameLetters == {"r"}
NameDigits == {"1"}
NameOthers == {"_", "-"}

(***************************************************************************)
(* dsl.py 153-157 validate_name: the name is a letter followed by letters, *)
(* digits, underscores and hyphens; the "$" of the pattern also matches    *)
(* before a newline that ends the string.                                  *)
(***************************************************************************)
RecipeNameRejected(name) ==
    LET body == IF name # <<>> /\ name[Len(name)] = "\n"
                THEN SubSeq(name, 1, Len(name) - 1)
                ELSE name
    IN  ~ /\ body # <<>>
          /\ body[1] \in NameLetters
          /\ \A j \in DOMAIN body :
                 body[j] \in NameLetters \cup NameDigits \cup NameOthers

(***************************************************************************)
(* dsl.py 143-165, Recipe built from a dict: the fields whose validation   *)
(* fails.  The validator of steps runs only when every step was built.    *)
(***************************************************************************)
RecipeErrors(data) ==
    {f \in {"name", "steps"} :
        \/ f = "name" /\ RecipeNameRejected(data.name)
        \/ f = "steps" /\
              \/ \E j \in DOMAIN data.steps : StepErrors(data.steps[j]) # {}
              \/ StepsRejected(data.steps)}

\* dsl.py 64-83: the weight of a selector field
Weight(f) ==
    IF f = "automation_id" THEN 10
    ELSE IF f = "control_type" THEN 5
    ELSE IF f = "class_name" THEN 3
    ELSE IF f = "name" THEN 2
    ELSE IF f = "value" THEN 2
    ELSE 1

\* dsl.py 64-83 of a score that stops at the first field that is set
EntropyScore_FirstOnly(sel) ==
    IF Truthy(sel.automation_id) THEN Weight("automation_id")
    ELSE IF Truthy(sel.control_type) THEN Weight("control_type")
    ELSE IF Truthy(sel.class_name) THEN Weight("class_name")
    ELSE IF Truthy(sel.name) THEN Weight("name")
    ELSE IF Truthy(sel.value) THEN Weight("value")
    ELSE IF Truthy(sel.help_text) THEN Weight("help_text")
    ELSE IF Truthy(sel.accessible_name) THEN Weight("accessible_name")
    ELSE 0

\* dsl.py 64-83 get_selector_entropy_score: seven "if self.<field>" in a row
EntropyScore(sel) ==
    (IF Truthy(sel.automation_id) THEN Weight("automation_id") ELSE 0)
    + (IF Truthy(sel.control_type) THEN Weight("control_type") ELSE 0)
    + (IF Truthy(sel.class_name) THEN Weight("class_name") ELSE 0)
    + (IF Truthy(sel.name) THEN Weight("name") ELSE 0)
    + (IF Truthy(sel.value) THEN Weight("value") ELSE 0)
    + (IF Truthy(sel.help_text) THEN Weight("help_text") ELSE 0)
    + (IF Truthy(sel.accessible_name) THEN Weight("accessible_name") ELSE 0)

\* dsl.py 85-90 has_selectors: any() over the seven string fields
HasSelectors(sel) ==
    \/ Truthy(sel.automation_id)
    \/ Truthy(sel.control_type)
    \/ Truthy(sel.class_name)
    \/ Truthy(sel.name)
    \/ Truthy(sel.value)
    \/ Truthy(sel.help_text)
    \/ Truthy(sel.accessible_name)

\* dsl.py 233-245 ElementSelector(<two fields>, index=element.index)
Fallback(control_type, class_name, name, index) ==
    [automation_id |-> None, control_type |-> control_type,
     class_name |-> class_name, name |-> name, value |-> None,
     help_text |-> None, accessible_name |-> None, index |-> index]

\* dsl.py 225-247 of a generator that lists the class_name fallback first
SelectorFallbacks_ClassFirst(element) ==
    IF ~Truthy(element.automation_id) THEN <<>>
    ELSE (IF Truthy(element.class_name) /\ Truthy(element.name)
          THEN <<Fallback(None, element.class_name, element.name,
                          element.index)>>
          ELSE <<>>)
         \o (IF Truthy(element.control_type) /\ Truthy(element.name)
             THEN <<Fallback(element.control_type, None, element.name,
                             element.index)>>
             ELSE <<>>)

\* dsl.py 225-247 validate_selector_fallbacks
SelectorFallbacks(element) ==
    IF ~Truthy(element.automation_id) THEN <<>>
    ELSE (IF Truthy(element.control_type) /\ Truthy(element.name)
          THEN <<Fallback(element.control_type, None, element.name,
                          element.index)>>
          ELSE <<>>)
         \o (IF Truthy(element.class_name) /\ Truthy(element.name)
             THEN <<Fallback(None, element.class_name, element.name,
                             element.index)>>
             ELSE <<>>)

\* the names of the steps a test selects, in step order
NamesOf(steps) == [j \in DOMAIN steps |-> steps[j].name]

\* dsl.py 197-198: the names that more than one step carries (the order of
\* a list built from a set is not fixed: the names are kept as a set)
DuplicateNames(steps) ==
    {steps[j].name : j \in {j \in DOMAIN steps :
        \E k \in DOMAIN steps : k # j /\ steps[k].name = steps[j].name}}

\* dsl.py 203
HasLongTimeout(step) == step.timeout > LongTimeout

\* dsl.py 210-213 of a check without the has_selectors() guard
HasWeakSelector_EmptyToo(step) ==
    /\ step.element # <<>>
    /\ EntropyScore(step.element[1]) < WeakEntropy

\* dsl.py 210-213
HasWeakSelector(step) ==
    /\ step.element # <<>>
    /\ HasSelectors(step.element[1])
    /\ EntropyScore(step.element[1]) < WeakEntropy

\* dsl.py 219
LacksVerification(step) ==
    ~step.verify_after /\ step.action \in {"click", "type"}

Warning(kind, names) == [kind |-> kind, names |-> names]

(***************************************************************************)
(* dsl.py 191-223 validate_recipe: up to four warnings, in this order.     *)
(***************************************************************************)
ValidateRecipe(steps) ==
    (IF DuplicateNames(steps) # {}
     THEN <<Warning("duplicates", DuplicateNames(steps))>> ELSE <<>>)
    \o (IF \E j \in DOMAIN steps : HasLongTimeout(steps[j])
        THEN <<Warning("long_timeouts",
                       NamesOf(SelectSeq(steps, HasLongTimeout)))>>
        ELSE <<>>)
    \o (IF \E j \in DOMAIN steps : HasWeakSelector(steps[j])
        THEN <<Warning("weak_selectors",
                       NamesOf(SelectSeq(steps, HasWeakSelector)))>>
        ELSE <<>>)
    \o (IF \E j \in DOMAIN steps : LacksVerification(steps[j])
        THEN <<Warning("no_verify",
                       NamesOf(SelectSeq(steps, LacksVerification)))>>
        ELSE <<>>)

\* dsl.py 250-260 of a loader that refuses a recipe with warnings
LoadBlocked_ByWarnings(data) ==
    RecipeErrors(data) # {} \/ ValidateRecipe(data.steps) # <<>>

\* dsl.py 250-260 load_recipe_from_dict raises RecipeValidationError
LoadBlocked(data) == RecipeErrors(data) # {}

(* ------------------------- the explored inputs ------------------------- *)
\* a selector with the given fields set
SelectorWith(fields) ==
    [f \in {"automation_id", "control_type", "class_name", "name", "value",
            "help_text", "accessible_name", "index"} |->
        IF f = "index" THEN <<0>>
        ELSE IF f \in fields THEN "x" ELSE None]

\* target.element of the explored steps (<<>> is None): none, no field set,
\* score 4, score 5
DslElements ==
    {<<>>, <<SelectorWith({})>>, <<SelectorWith({"name", "value"})>>,
     <<SelectorWith({"control_type"})>>}

DslStep(names, actions, elements, timeouts, attempts, delays) ==
    [name : names, action : actions, element : elements, timeout : timeouts,
     retry_attempts : attempts, retry_delay : delays, verify_after : BOOLEAN]

\* the steps of the explored recipes
RecipeSteps ==
    DslStep({"s1", "s2"}, {"click", "type", "wait_for"}, DslElements,
            {LongTimeout, LongTimeout + 1}, {3}, {1})

\* dsl.py 119-128: a step with the default values
DefaultStep ==
    [name |-> "s1", action |-> "click", element |-> <<>>, timeout |-> 10,
     retry_attempts |-> 3, retry_delay |-> 1, verify_after |-> TRUE]

RecipeNames == {<<"r", "1">>, <<"1", "r">>, <<"r", "_", "\n">>, <<>>}

\* short recipes of varied steps, long recipes of default steps, and
\* recipes whose last step has a timeout of 0
RecipeData ==
    {[name |-> <<"r", "1">>, steps |-> l] :
        l \in UNION {[1..n -> RecipeSteps] : n \in 1..MaxSteps}}
    \cup {[name |-> nm, steps |-> [j \in 1..n |-> DefaultStep]] :
             nm \in RecipeNames, n \in 0..MaxListLen}
    \cup {[name |-> <<"r", "1">>,
           steps |-> [j \in 1..n |->
                         IF j = n THEN [DefaultStep EXCEPT !.timeout = 0]
                         ELSE DefaultStep]] : n \in 1..MaxSteps}

\* the steps handed to ActionStep(...)
StepData ==
    DslStep({"s1"}, {"click"}, {<<>>}, (0 - 1)..MaxTimeoutField,
            0..MaxRetryField, RetryDelays)

\* the names handed to WindowSelector(name=...)
WindowNames ==
    {PyNone} \cup {StrValue([j \in 1..n |-> "a"]) : n \in 0..MaxTextLen}

DslCall(fn, args) == [fn : {fn}, arg : args]

InitDsl ==
    /\ OrchOff
    /\ FindOff
    /\ SubstOff
    /\ WaitOff
    /\ CliOff
    /\ CacheOff
    /\ FsOff
    /\ UiOff
    /\ dsl_pc = "called"
    /\ \/ dsl_in \in DslCall("load_recipe_from_dict", RecipeData)
       \/ dsl_in \in DslCall("ActionStep", StepData)
       \/ dsl_in \in DslCall("WindowSelector", WindowNames)
       \/ dsl_in \in DslCall("get_selector_entropy_score", ElementSelector)
       \/ dsl_in \in DslCall("validate_selector_fallbacks", ElementSelector)
    /\ dsl_out = None

DslReturn(fn, result) ==
    /\ UNCHANGED <<orchVars, findVars, substVars, waitVars, cliVars,
                   cacheVars, fsVars, uiVars>>
    /\ dsl_pc = "called"
    /\ dsl_in.fn = fn
    /\ dsl_pc' = "done"
    /\ dsl_out' = result
    /\ UNCHANGED dsl_in

\* dsl.py 250-260 load_recipe_from_dict
DslLoadRecipe ==
    DslReturn("load_recipe_from_dict",
              IF LoadBlocked(dsl_in.arg)
              THEN [ok |-> FALSE, errors |-> RecipeErrors(dsl_in.arg),
                    warnings |-> <<>>]
              ELSE [ok |-> TRUE, errors |-> {},
                    warnings |-> ValidateRecipe(dsl_in.arg.steps)])

\* dsl.py 119-140 ActionStep(...)
DslActionStep ==
    DslReturn("ActionStep",
              [ok |-> StepErrors(dsl_in.arg) = {},
               errors |-> StepErrors(dsl_in.arg)])

\* dsl.py 40-50 WindowSelector(name=...)
DslWindowSelector ==
    DslReturn("WindowSelector", [ok |-> ~ValidateNameRaises(dsl_in.arg)])

\* dsl.py 64-83 get_selector_entropy_score
DslEntropyScore ==
    DslReturn("get_selector_entropy_score", EntropyScore(dsl_in.arg))

\* dsl.py 225-247 validate_selector_fallbacks
DslSelectorFallbacks ==
    DslReturn("validate_selector_fallbacks", SelectorFallbacks(dsl_in.arg))

NextDsl ==
    \/ DslLoadRecipe
    \/ DslActionStep
    \/ DslWindowSelector
    \/ DslEntropyScore
    \/ DslSelectorFallbacks

SpecDsl == InitDsl /\ [][NextDsl]_vars

(* ====== SpecTarget: a one-step run whose handler checks its target ===== *)
(* The fields of step.target are fields of the step record, as text is.    *)
(***************************************************************************)
(* main.py 201-370: the test each handler makes before it calls its        *)
(* provider; when it holds the handler raises ValueError.                  *)
(***************************************************************************)
TargetMissing(step) ==
    IF step.action = "launch" THEN ~Truthy(step.app)
    ELSE IF step.action = "wait_for"
         THEN ~Truthy(step.element) /\ ~Truthy(step.window)
    ELSE IF step.action \in {"click", "read_text"} THEN ~Truthy(step.element)
    ELSE IF step.action \in {"type", "hotkey"} THEN ~Truthy(step.text)
    ELSE IF step.action = "verify"
         THEN ~(Truthy(step.element) /\ Truthy(step.text))
    ELSE IF step.action \in {"file_write", "file_copy"}
         THEN ~Truthy(step.file_path) \/ ~Truthy(step.text)
    ELSE IF step.action = "file_read" THEN ~Truthy(step.file_path)
    ELSE IF step.action = "ocr_text"
         THEN ~Truthy(step.region) /\ ~Truthy(step.file_path)
    ELSE FALSE

\* the explored steps: every action kind with every combination of present
\* and absent target fields
TargetStep ==
    [action : ActionType,
     app : {None, "a.exe"},
     window : {None, "win"},
     element : {None, "el"},
     file_path : {None, "f.txt"},
     text : {None, "", "t"},
     region : {None, "region"},
     retry_attempts : {MinRetryAttempts, MaxAttempts},
     retry_delay : {-1, 1},
     continue_on_failure : {FALSE}]

InitTarget == InitRun([1..1 -> TargetStep], {NoVariables})

(***************************************************************************)
(* _execute_step, lines 161-175, for an attempt that failed with the given *)
(* error after the calls of log: with attempts left the retry is logged    *)
(* and the sleep follows; otherwise the failure is logged and False is     *)
(* returned.                                                               *)
(***************************************************************************)
AfterFailedAttempt(error, log) ==
    /\ last_error' = error
    /\ inflight' = inflight \ {<<current_step, attempt>>}
    /\ IF ShouldRetry(attempt, recipe[current_step])
       THEN /\ events' = events \o <<Ev("handler_failed", current_step, attempt),
                                      Ev("retry", current_step, attempt)>>
            /\ call_log' = Append(log,
                               Call("log_step_retry", current_step, attempt,
                                    recipe[current_step].retry_attempts, <<>>))
            /\ pc' = "sleep"
            /\ UNCHANGED <<i, success, step_result>>
       ELSE /\ call_log' = Append(log,
                               Call("log_step_failure", current_step, attempt,
                                    0, <<>>))
            /\ AfterStep(current_step, FALSE,
                         events \o <<Ev("handler_failed", current_step, attempt),
                                     Ev("step_failure", current_step, attempt)>>)
    /\ UNCHANGED <<recipe, current_step, attempt, ret, variables>>

\* the call a handler makes to its provider
BackendCall == Call("backend", current_step, attempt, 0, <<>>)

\* main.py 201-370: the handler raises ValueError before it calls a provider
TargetHandlerRaises ==
    /\ UNCHANGED <<findVars, extVars>>
    /\ pc = "handler"
    /\ TargetMissing(recipe[current_step])
    /\ AfterFailedAttempt("ValueError", call_log)

\* the handler calls its provider, which returns a falsy result or raises
TargetHandlerFails ==
    /\ UNCHANGED <<findVars, extVars>>
    /\ pc = "handler"
    /\ ~TargetMissing(recipe[current_step])
    /\ \E o \in {"falsy", "raise"} :
          AfterFailedAttempt(ErrorOf(o), Append(call_log, BackendCall))

\* the handler calls its provider, which returns a truthy result
TargetHandlerSucceeds ==
    /\ UNCHANGED <<findVars, extVars>>
    /\ pc = "handler"
    /\ ~TargetMissing(recipe[current_step])
    /\ call_log' = Append(call_log, BackendCall)
    /\ IF recipe[current_step].action \in ResultActions
       THEN \E text \in BackendTexts :
               variables' = Store(variables, ResultKey(current_step),
                                  StrValue(text))
       ELSE UNCHANGED variables
    /\ inflight' = inflight \ {<<current_step, attempt>>}
    /\ AfterStep(current_step, TRUE,
                 Append(events, Ev("handler_ok", current_step, attempt)))
    /\ UNCHANGED <<recipe, current_step, attempt, last_error, ret>>

NextTarget ==
    \/ ExecuteRecipe
    \/ BeginStep
    \/ DispatchAttempt
    \/ TargetHandlerRaises
    \/ TargetHandlerFails
    \/ TargetHandlerSucceeds
    \/ RetrySleep
    \/ RetrySleepRaises
    \/ FinishRecipe

SpecTarget == InitTarget /\ [][NextTarget]_vars

(* ========== SpecUi: one action operation of the UIProvider ============= *)
(* A call is the operation, its arguments, and the answers of the UI       *)
(* backend during the call: whether the element (or window) is found, the  *)
(* backend calls that raise, and what the state queries return.            *)
UiSettings ==
    [element : {TRUE}, window : {FALSE}, click_type : {"left"},
     verify : {TRUE}, expected_state : {"visible"}, found : BOOLEAN,
     raising : {{}}, visible : {TRUE}, enabled : {TRUE}, state : {TRUE},
     echo : {TRUE}]

\* the records of base with the fields of the record set more set as there
Vary(base, more) ==
    {[f \in DOMAIN b |-> IF f \in DOMAIN m THEN m[f] ELSE b[f]] :
        b \in base, m \in more}

ClickCalls ==
    Vary(UiSettings,
         [click_type : {"left", "right", "double", "middle"},
          verify : BOOLEAN, visible : BOOLEAN, enabled : BOOLEAN,
          raising : SUBSET {"is_visible", "is_enabled", "scroll_to_view",
                            "click_input", "verify"}])

TypeCalls ==
    Vary(UiSettings,
         [element : BOOLEAN, verify : BOOLEAN, echo : BOOLEAN,
          raising : SUBSET {"set_focus", "select_all", "type_keys",
                            "send_keys", "window_text"}])

HotkeyCalls ==
    Vary(UiSettings,
         [window : BOOLEAN, raising : SUBSET {"set_focus", "send_keys"}])

TextCalls ==
    Vary(UiSettings,
         [raising : SUBSET {"window_text", "get_value", "name"}])

StateCalls ==
    Vary(UiSettings,
         [expected_state : {"visible", "enabled", "focused", "selected",
                            "checked"},
          state : BOOLEAN, raising : SUBSET {"state"}])

\* bool as the caller reads it
PyBool(b) == IF b THEN "True" ELSE "False"

(***************************************************************************)
(* ui.py 123-155: the try block of click_element.  An exception of         *)
(* scroll_to_view is swallowed (lines 133-136).                            *)
(***************************************************************************)
ClickElementBody(call) ==
    IF ~call.found THEN Raised("ElementNotFoundError")
    ELSE IF "is_visible" \in call.raising THEN Raised("Exception")
    ELSE IF ~call.visible THEN Raised("RuntimeError")
    ELSE IF "is_enabled" \in call.raising THEN Raised("Exception")
    ELSE IF ~call.enabled THEN Raised("RuntimeError")
    ELSE IF call.click_type \notin {"left", "right", "double"}
         THEN Raised("ValueError")
    ELSE IF "click_input" \in call.raising THEN Raised("Exception")
    ELSE IF call.verify /\ "verify" \in call.raising
         THEN Raised("RuntimeError")
    ELSE Returned("True")

(***************************************************************************)
(* ui.py 181-212: the try block of type_text (clear_first is left at its   *)
(* default).  _verify_text_input (463-478) raises when the text read back  *)
(* does not hold the text typed and swallows a failure to read it back.    *)
(***************************************************************************)
TypeTextBody(call) ==
    IF call.element /\ ~call.found THEN Raised("ElementNotFoundError")
    ELSE IF call.element /\ "set_focus" \in call.raising
         THEN Raised("Exception")
    ELSE IF call.element /\ "select_all" \in call.raising
         THEN Raised("Exception")
    ELSE IF (IF call.element THEN "type_keys" ELSE "send_keys")
                \in call.raising
         THEN Raised("Exception")
    ELSE IF call.verify /\ call.element
               /\ "window_text" \notin call.raising /\ ~call.echo
         THEN Raised("RuntimeError")
    ELSE Returned("True")

(***************************************************************************)
(* ui.py 234-249: the try block of send_hotkey; _find_window returns None  *)
(* where it fails (352-385).                                               *)
(***************************************************************************)
SendHotkeyBody(call) ==
    IF call.window /\ call.found /\ "set_focus" \in call.raising
    THEN Raised("Exception")
    ELSE IF "send_keys" \in call.raising THEN Raised("Exception")
    ELSE Returned("True")

(***************************************************************************)
(* ui.py 270-293: the try block of get_element_text: window_text, then     *)
(* get_value, then element_info.name; "" when all three raise.             *)
(***************************************************************************)
GetElementTextBody(call) ==
    IF ~call.found THEN Raised("ElementNotFoundError")
    ELSE IF {"window_text", "get_value", "name"} \subseteq call.raising
         THEN Returned("")
    ELSE Returned("text")

(***************************************************************************)
(* ui.py 317-345: the try block of verify_element_state; an exception of   *)
(* is_selected reads as False (lines 330-333).                             *)
(***************************************************************************)
VerifyElementStateBody(call) ==
    IF ~call.found THEN Raised("ElementNotFoundError")
    ELSE IF call.expected_state \in {"visible", "enabled", "focused"}
         THEN IF "state" \in call.raising THEN Raised("Exception")
              ELSE Returned(PyBool(call.state))
    ELSE IF call.expected_state = "selected"
         THEN IF "state" \in call.raising THEN Returned("False")
              ELSE Returned(PyBool(call.state))
    ELSE Raised("ValueError")

\* the exception classes the try blocks meet, all subclasses of Exception
ExceptionClasses ==
    {"ElementNotFoundError", "RuntimeError", "ValueError", "Exception"}

\* mutation: the handler reads "except ElementNotFoundError"
Catches_NotFoundOnly(error) == error = "ElementNotFoundError"

\* ui.py 157, 214, 251, 295, 347: except Exception as e
Catches(error) == error \in ExceptionClasses

\* ui.py 158-160, 215-216, 252-253, 296-297, 348-350: the handler logs the
\* failure and returns the given value
Guarded(body, on_failure) ==
    IF body.t = "raise" /\ Catches(body.v) THEN Returned(on_failure) ELSE body

InitUi ==
    /\ OrchOff
    /\ FindOff
    /\ SubstOff
    /\ WaitOff
    /\ CliOff
    /\ CacheOff
    /\ FsOff
    /\ DslOff
    /\ ui_pc \in {"click_element", "type_text", "send_hotkey",
                  "get_element_text", "verify_element_state"}
    /\ ui_call \in (IF ui_pc = "click_element" THEN ClickCalls
                    ELSE IF ui_pc = "type_text" THEN TypeCalls
                    ELSE IF ui_pc = "send_hotkey" THEN HotkeyCalls
                    ELSE IF ui_pc = "get_element_text" THEN TextCalls
                    ELSE StateCalls)
    /\ ui_ret = None

UiDone(op, result) ==
    /\ UNCHANGED <<orchVars, findVars, substVars, waitVars, cliVars,
                   cacheVars, fsVars, dslVars>>
    /\ ui_pc = op
    /\ ui_pc' = "done_" \o op
    /\ ui_ret' = result
    /\ UNCHANGED ui_call

\* ui.py 105-160
ClickElement == UiDone("click_element", Guarded(ClickElementBody(ui_call), "False"))

\* ui.py 162-216
TypeText == UiDone("type_text", Guarded(TypeTextBody(ui_call), "False"))

\* ui.py 218-253
SendHotkey == UiDone("send_hotkey", Guarded(SendHotkeyBody(ui_call), "False"))

\* ui.py 255-297
GetElementText ==
    UiDone("get_element_text", Guarded(GetElementTextBody(ui_call), "None"))

\* ui.py 299-350
VerifyElementState ==
    UiDone("verify_element_state",
           Guarded(VerifyElementStateBody(ui_call), "False"))

NextUi ==
    \/ ClickElement
    \/ TypeText
    \/ SendHotkey
    \/ GetElementText
    \/ VerifyElementState

SpecUi == InitUi /\ [][NextUi]_vars

(* ===== SpecCopy: a recipe of one file_copy step on the file system ===== *)
(* The step names its source in target.file_path and its destination in   *)
(* target.text; fs_call holds the two paths these strings spell.           *)
CopyStep ==
    [action : {"file_copy"},
     app : {None},
     window : {None},
     element : {None},
     file_path : {"f.txt"},
     text : {"t"},
     region : {None},
     retry_attempts : {MinRetryAttempts, MaxAttempts},
     retry_delay : {-1, 1},
     continue_on_failure : {FALSE}]

\* sources: the file /w/w, a file that is missing, a file outside the
\* allowed directories
CopySources ==
    {[rel |-> TRUE, parts |-> <<"w">>], [rel |-> TRUE, parts |-> <<"o">>],
     [rel |-> FALSE, parts |-> <<"o", "o">>]}

InitCopy ==
    /\ recipe \in [1..1 -> CopyStep]
    /\ variables = NoVariables
    /\ call_log = <<>>
    /\ pc = "loaded"
    /\ i = 0
    /\ current_step = 0
    /\ attempt = 0
    /\ success = TRUE
    /\ last_error = None
    /\ step_result = [s \in DOMAIN recipe |-> "pending"]
    /\ inflight = {}
    /\ events = <<>>
    /\ ret = "pending"
    /\ FindOff
    /\ SubstOff
    /\ WaitOff
    /\ CliOff
    /\ CacheOff
    /\ DslOff
    /\ UiOff
    /\ fs_pc = "idle"
    /\ fs_call \in [op : {"copy_file"}, path : CopySources, dest : PathArgs,
                     flag : {FALSE}]
    /\ files = InitialFiles
    /\ dirs = InitialDirs
    /\ fs_trace = <<>>
    /\ fs_ret = None

(***************************************************************************)
(* main.py 327-332 _execute_file_copy_action inside the try block of       *)
(* _execute_step (main.py 134-175): copy_file(file_path, text) with        *)
(* overwrite left at its default False; a True result ends the step, a     *)
(* False one fails the attempt.                                            *)
(***************************************************************************)
ExecuteFileCopyAction ==
    /\ UNCHANGED <<findVars, substVars, waitVars, cliVars, cacheVars,
                   dslVars, uiVars>>
    /\ pc = "handler"
    /\ recipe[current_step].action = "file_copy"
    /\ LET result == CopyFile(files, dirs, fs_call.path, fs_call.dest,
                              fs_call.flag)
       IN  /\ files' = result.files
           /\ dirs' = result.dirs
           /\ fs_trace' = result.trace
           /\ fs_ret' = result.ret
           /\ UNCHANGED <<fs_pc, fs_call>>
           /\ IF result.ret.v
              THEN /\ call_log' = Append(call_log, BackendCall)
                   /\ inflight' = inflight \ {<<current_step, attempt>>}
                   /\ AfterStep(current_step, TRUE,
                                Append(events,
                                       Ev("handler_ok", current_step, attempt)))
                   /\ UNCHANGED <<recipe, current_step, attempt, last_error,
                                  ret, variables>>
              ELSE AfterFailedAttempt(ErrorOf("falsy"),
                                      Append(call_log, BackendCall))

NextCopy ==
    \/ ExecuteRecipe
    \/ BeginStep
    \/ DispatchAttempt
    \/ ExecuteFileCopyAction
    \/ RetrySleep
    \/ RetrySleepRaises
    \/ FinishRecipe

SpecCopy == InitCopy /\ [][NextCopy]_vars

(* --------------------------------- C13 --------------------------------- *)
\* the characters p..e of text read "${name}" with a non-empty name that
\* holds no "}"
Occurrence(text, p, e) ==
    /\ p + 3 <= e /\ e <= Len(text)
    /\ text[p] = "$" /\ text[p + 1] = "{" /\ text[e] = "}"
    /\ \A q \in (p + 2)..(e - 1) : text[q] # "}"

StartsOccurrence(text, p) == \E e \in 1..Len(text) : Occurrence(text, p, e)
OccurrenceEnd(text, p) == CHOOSE e \in 1..Len(text) : Occurrence(text, p, e)
NameAt(text, p) == SubSeq(text, p + 2, OccurrenceEnd(text, p) - 1)

\* where a "${name}" starts whose name is a key of the mapping
KeyOccurrences(text, mapping) ==
    {p \in 1..Len(text) :
        StartsOccurrence(text, p) /\ NameAt(text, p) \in DOMAIN mapping}

\* those of them that do not lie inside the name of another "${...}"
OuterKeyOccurrences(text, mapping) ==
    {p \in KeyOccurrences(text, mapping) :
        \A q \in 1..(p - 1) :
            ~Occurrence(text, q, OccurrenceEnd(text, p))}

\* text with the occurrences that start at the given positions replaced by
\* the stringified value of their name, and every other character kept
RECURSIVE Replaced(_, _, _, _)
Replaced(text, p, mapping, starts) ==
    IF p > Len(text) THEN <<>>
    ELSE IF p \in starts
         THEN PyStr(mapping[NameAt(text, p)])
                  \o Replaced(text, OccurrenceEnd(text, p) + 1, mapping, starts)
         ELSE <<text[p]>> \o Replaced(text, p + 1, mapping, starts)

(***************************************************************************)
(* C13 as stated: substitute_variables replaces every "${name}" whose name *)
(* is a key by the stringified value and keeps everything else.            *)
(***************************************************************************)
C13_EveryOccurrenceReplaced ==
    (sub_pc = "returned" /\ sub_text.t = "str") =>
        sub_result
            = StrValue(Replaced(sub_text.v, 1, sub_mapping,
                                KeyOccurrences(sub_text.v, sub_mapping)))

(***************************************************************************)
(* C13 amended: a placeholder runs from a "${" to the next "}"; a "${name}"*)
(* that lies inside the name of such a placeholder is part of that name    *)
(* and is not replaced.  Every other "${name}" whose name is a key is      *)
(* replaced by the stringified value; absent names, the text outside       *)
(* placeholders and an argument that is no str are returned as they are.   *)
(***************************************************************************)
C13_OuterOccurrencesReplaced ==
    sub_pc = "returned" =>
        IF sub_text.t = "str"
        THEN sub_result
                 = StrValue(Replaced(sub_text.v, 1, sub_mapping,
                                     OuterKeyOccurrences(sub_text.v, sub_mapping)))
        ELSE sub_result = sub_text

\* "a${a}}" with a = 42 comes back as "a42}"
C13_Witness ==
    /\ sub_pc = "returned"
    /\ sub_text = StrValue(<<"a", "$", "{", "a", "}", "}">>)
    /\ <<"a">> \in DOMAIN sub_mapping
    /\ sub_mapping[<<"a">>] = IntValue(42)
    /\ sub_result = StrValue(<<"a", "4", "2", "}">>)

(* --------------------------------- C14 --------------------------------- *)
\* what a field that holds x has to hold in the returned step when the field
\* is a string field (None stays None)
Substituted(x) ==
    IF x.t = "str" THEN StrValue(SubstituteVariables(x.v, sub_mapping)) ELSE x

ElementStringFields ==
    {"automation_id", "control_type", "class_name", "name", "value",
     "help_text", "accessible_name"}

(***************************************************************************)
(* C14: the step _substitute_step_variables returns has every string field *)
(* substituted and every other field (timeout, retry_attempts,             *)
(* retry_delay, verify_after, continue_on_failure, element index,          *)
(* process_id, region) equal to the original; the action kind is the same. *)
(***************************************************************************)
C14_OnlyStringFieldsChange ==
    sub_pc = "step_returned" =>
        LET o == sub_step.v
            r == sub_copy.v
            ot == sub_step.v.target.v
            rt == sub_copy.v.target.v
        IN  /\ r.name = Substituted(o.name)
            /\ r.action = o.action
            /\ r.timeout = o.timeout
            /\ r.retry_attempts = o.retry_attempts
            /\ r.retry_delay = o.retry_delay
            /\ r.verify_after = o.verify_after
            /\ r.continue_on_failure = o.continue_on_failure
            /\ rt.app = Substituted(ot.app)
            /\ rt.file_path = Substituted(ot.file_path)
            /\ rt.text = Substituted(ot.text)
            /\ rt.region = ot.region
            /\ rt.window.t = ot.window.t
            /\ ot.window.t = "dict" =>
                  /\ rt.window.v.name = Substituted(ot.window.v.name)
                  /\ rt.window.v.class_name = Substituted(ot.window.v.class_name)
                  /\ rt.window.v.process_id = ot.window.v.process_id
            /\ rt.element.t = ot.element.t
            /\ ot.element.t = "dict" =>
                  /\ \A f \in ElementStringFields :
                        rt.element.v[f] = Substituted(ot.element.v[f])
                  /\ rt.element.v.index = ot.element.v.index

\* a step with window, element and region whose texts change
C14_Witness ==
    /\ sub_pc = "step_returned"
    /\ DOMAIN sub_mapping # {}
    /\ sub_step.v.target.v.window.t = "dict"
    /\ sub_step.v.target.v.window.v.process_id = IntValue(4242)
    /\ sub_step.v.target.v.element.t = "dict"
    /\ sub_step.v.target.v.element.v.index = IntValue(1)
    /\ sub_step.v.target.v.region.t = "dict"
    /\ sub_step.v.retry_delay = FloatValue(-1)
    /\ sub_step.v.target.v.text.t = "str"
    /\ sub_copy.v.target.v.text # sub_step.v.target.v.text
    /\ sub_copy.v.target.v.element.v.automation_id
           # sub_step.v.target.v.element.v.automation_id

(* ------------------------------- C15, C16 ------------------------------ *)
\* the elapsed time, in ticks, at which the timeout of the wait is reached
Deadline == wt_timeout * TicksPerSecond

Raises == {j \in Evaluations : wt_trace[j].what = "raise"}

\* the number of the last evaluation that raised (0: none did)
LastRaised ==
    IF Raises = {} THEN 0
    ELSE LET last == CHOOSE j \in Raises : \A k \in Raises : k <= j
         IN  Cardinality({k \in Evaluations : k <= last})

C15_Safe ==
    \* a sleep lies between any two evaluations
    /\ \A j, k \in Evaluations :
          j < k => \E m \in (j + 1)..(k - 1) : wt_trace[m].what = "sleep"
    \* the first ready evaluation ends the wait with True
    /\ \A j \in Evaluations :
          wt_trace[j].what = "ready" => j = Len(wt_trace) /\ wt_ret = "True"
    /\ wt_ret = "True" =>
          wt_trace # <<>> /\ wt_trace[Len(wt_trace)].what = "ready"
    \* False is returned only when the timeout is reached, and no evaluation
    \* starts after that
    /\ wt_ret = "False" => wt_now >= Deadline
    /\ \A j \in Evaluations : wt_trace[j].at < Deadline
    /\ Cardinality(Evaluations) * SleepTicks <= Deadline

(***************************************************************************)
(* C15: a polling wait evaluates its predicate again and again with a      *)
(* sleep in between, returns True at the first ready evaluation, returns   *)
(* False once the elapsed time has reached the timeout, and always ends.   *)
(***************************************************************************)
C15_PollingWaitEnds == []C15_Safe /\ <>(wt_pc = "done")

\* a wait that timed out after several evaluations without an exception
C15_Witness ==
    /\ wt_pc = "done"
    /\ wt_ret = "False"
    /\ Cardinality(Evaluations) >= 2
    /\ Raises = {}
    /\ wt_now >= Deadline

(***************************************************************************)
(* C16: an evaluation that raises counts as "not ready": the wait goes on  *)
(* to the sleep, does not end before the timeout, a later ready evaluation *)
(* returns True, and the exception reaches the log only in the failure     *)
(* event of a wait that timed out.                                         *)
(***************************************************************************)
C16_RaiseIsNotReady ==
    /\ wt_ret \in {"pending", "True", "False"}
    /\ \A j \in Raises :
          /\ j < Len(wt_trace) => wt_trace[j + 1].what = "sleep"
          /\ j = Len(wt_trace) => wt_pc = "sleep"
    /\ wt_ret = "False" => wt_now >= Deadline
    /\ (wt_trace # <<>> /\ wt_trace[Len(wt_trace)].what = "ready") =>
          wt_ret = "True"
    /\ \A j \in DOMAIN wt_log :
          IF wt_log[j].event = "failure"
          THEN /\ wt_ret = "False"
               /\ j = Len(wt_log)
               /\ wt_log[j].raised_by = LastRaised
               /\ wt_log[j].error
                      = (IF LastRaised = 0 THEN "TimeoutError" ELSE "last_error")
          ELSE wt_log[j].error = None /\ wt_log[j].raised_by = 0

\* an evaluation raised, a later one was ready: True, nothing reported
C16_Witness ==
    /\ wt_pc = "done"
    /\ wt_ret = "True"
    /\ Raises # {}
    /\ \A j \in DOMAIN wt_log : wt_log[j].event # "failure"

(* --------------------------------- C20 --------------------------------- *)
(***************************************************************************)
(* C20: a dry run only loads and validates the recipe: no attempt is       *)
(* dispatched, no backend capability (UI, process, filesystem, OCR) is     *)
(* invoked, and the variables are not modified.                            *)
(***************************************************************************)
C20_DryRunInvokesNoBackend ==
    dry_run =>
        /\ EvIdx("attempt", 1) = {}
        /\ events = <<>>
        /\ inflight = {}
        /\ variables = NoVariables
        /\ cli_calls = <<>>

(* --------------------------------- C21 --------------------------------- *)
\* the entry of app in a cache is the same before and after the step
EntryKept(before, after, app) ==
    app \in DOMAIN before => app \in DOMAIN after /\ after[app] = before[app]

\* the step is the operation name on app with that outcome
StepIs(op, name, app, outcome) ==
    op.op = name /\ op.app = app /\ op.outcome = outcome

CachesEmpty(ui, proc, launched) ==
    DOMAIN ui = {} /\ DOMAIN proc = {} /\ DOMAIN launched = {}

(***************************************************************************)
(* C21 as stated: a cached application connection stays cached and         *)
(* unchanged; no operation other than cleanup() removes or replaces an     *)
(* entry, and after cleanup() the caches are empty.                        *)
(***************************************************************************)
C21_OnlyCleanupInvalidates ==
    [][/\ cache_op'.op # "cleanup" =>
              \A app \in CacheApps :
                  /\ EntryKept(ui_applications, ui_applications', app)
                  /\ EntryKept(proc_applications, proc_applications', app)
       /\ cache_op'.op = "cleanup" =>
              CachesEmpty(ui_applications', proc_applications',
                          launched_processes')]_vars

(***************************************************************************)
(* C21 amended: a connection cached by the UI provider stays cached and    *)
(* unchanged until cleanup(); a connection cached by the process provider  *)
(* stays cached and unchanged until cleanup(), a terminate_application of  *)
(* that application that terminates it, or a launch_application of that    *)
(* application that starts a new process; after cleanup() the caches are   *)
(* empty.                                                                  *)
(***************************************************************************)
C21_CleanupTerminateLaunchInvalidate ==
    [][/\ cache_op'.op # "cleanup" =>
              \A app \in CacheApps :
                  /\ EntryKept(ui_applications, ui_applications', app)
                  /\ \/ EntryKept(proc_applications, proc_applications', app)
                     \/ StepIs(cache_op', "terminate", app, "terminated")
                     \/ StepIs(cache_op', "launch", app, "launched")
       /\ cache_op'.op = "cleanup" =>
              CachesEmpty(ui_applications', proc_applications',
                          launched_processes')]_vars

\* a.exe has just been terminated and forgotten by the process provider,
\* while the UI provider still holds its connection to it
C21_Witness ==
    /\ StepIs(cache_op, "terminate", "a.exe", "terminated")
    /\ "a.exe" \notin DOMAIN proc_applications
    /\ "a.exe" \in DOMAIN ui_applications
    /\ "b.exe" \in DOMAIN proc_applications

(* --------------------------------- C22 --------------------------------- *)
\* the place a path argument names lies under no allowed base directory
OutsideAllowed(path) ==
    \A base \in AllowedPaths :
        ~IsRelativeTo(RealPath(AbsPath(path)), RealPath(base))

\* the path arguments of the call, in the order the operation takes them
CallPaths(call) ==
    IF call.op = "copy_file" THEN <<call.path, call.dest>> ELSE <<call.path>>

\* the entries of the trace that read, create or modify something
Touches(trace) == {n \in DOMAIN trace : trace[n][1] # "validate"}

FailureOf(call) ==
    IF call.op = "read_file" THEN Raised("ValueError") ELSE Returned(FALSE)

DslDone(fn) == dsl_pc = "done" /\ dsl_in.fn = fn

\* the step's numeric fields are within the ranges of the recipe format
InRanges(step) ==
    /\ 1 <= step.timeout /\ step.timeout <= 300
    /\ 1 <= step.retry_attempts /\ step.retry_attempts <= 10

\* C23: a step list of valid steps is accepted iff it holds 1 to 100 steps:
\* an empty list and every list of more than 100 steps is rejected.
C23_StepCountOneToHundred ==
    (/\ DslDone("load_recipe_from_dict")
     /\ \A j \in DOMAIN dsl_in.arg.steps : InRanges(dsl_in.arg.steps[j]))
    => ("steps" \notin dsl_out.errors
            <=> (1 <= Len(dsl_in.arg.steps) /\ Len(dsl_in.arg.steps) <= 100))

\* a recipe of exactly 100 steps has been accepted
C23_Witness ==
    /\ DslDone("load_recipe_from_dict")
    /\ Len(dsl_in.arg.steps) = 100
    /\ dsl_out.ok

(* --------------------------------- C24 --------------------------------- *)
\* C24: timeout is accepted iff 1 <= timeout <= 300, retry_attempts iff
\* 1 <= retry_attempts <= 10; a value out of range makes the construction
\* of the step fail, and with it that of the recipe that holds the step.
C24_TimeoutAndRetryRanges ==
    /\ DslDone("ActionStep") =>
           /\ "timeout" \notin dsl_out.errors
                  <=> (1 <= dsl_in.arg.timeout /\ dsl_in.arg.timeout <= 300)
           /\ "retry_attempts" \notin dsl_out.errors
                  <=> (/\ 1 <= dsl_in.arg.retry_attempts
                       /\ dsl_in.arg.retry_attempts <= 10)
           /\ ~InRanges(dsl_in.arg) => ~dsl_out.ok
    /\ (/\ DslDone("load_recipe_from_dict")
        /\ \E j \in DOMAIN dsl_in.arg.steps : ~InRanges(dsl_in.arg.steps[j]))
       => ~dsl_out.ok

\* a step with the largest timeout and the largest retry_attempts has been
\* built
C24_Witness ==
    /\ DslDone("ActionStep")
    /\ dsl_in.arg.timeout = 300
    /\ dsl_in.arg.retry_attempts = 10
    /\ dsl_out.ok

(* --------------------------------- C25 --------------------------------- *)
\* C25: a step whose retry_delay is negative is rejected: every accepted
\* step has retry_delay >= 0.
C25_NegativeRetryDelayRejected ==
    (DslDone("ActionStep") /\ dsl_out.ok) => dsl_in.arg.retry_delay >= 0

(* --------------------------------- C26 --------------------------------- *)
\* C26: a WindowSelector whose name is a string of length 0 or 1 is
\* rejected; an absent name and every name of 2 characters or more is
\* accepted.
C26_ShortWindowNameRejected ==
    DslDone("WindowSelector") =>
        (dsl_out.ok <=> (dsl_in.arg.t = "none" \/ Len(dsl_in.arg.v) >= 2))

(* --------------------------------- C27 --------------------------------- *)
\* the string fields of a selector, with the weight the recipe format gives
\* to each
SelectorWeights ==
    << <<"automation_id", 10>>, <<"control_type", 5>>, <<"class_name", 3>>,
       <<"name", 2>>, <<"value", 2>>, <<"help_text", 1>>,
       <<"accessible_name", 1>> >>

\* the fields of a selector that are set (to a non-empty string)
PresentFields(sel) ==
    {j \in DOMAIN SelectorWeights : Truthy(sel[SelectorWeights[j][1]])}

RECURSIVE SumOfWeights(_)
SumOfWeights(js) ==
    IF js = {} THEN 0
    ELSE LET j == CHOOSE k \in js : TRUE
         IN  SelectorWeights[j][2] + SumOfWeights(js \ {j})

\* C27: the entropy score is the sum of the weights of the fields that are
\* set; the index contributes nothing, a selector with no field set scores
\* 0, and no selector scores more than 24.
C27_EntropyIsSumOfWeights ==
    DslDone("get_selector_entropy_score") =>
        /\ dsl_out = SumOfWeights(PresentFields(dsl_in.arg))
        /\ PresentFields(dsl_in.arg) = {} => dsl_out = 0
        /\ dsl_out <= 24
        /\ \A ix \in {<<>>, <<0>>, <<1>>} :
               EntropyScore([dsl_in.arg EXCEPT !.index = ix]) = dsl_out

\* a selector with all seven fields set and an index of 1 has scored 24
C27_Witness ==
    /\ DslDone("get_selector_entropy_score")
    /\ Cardinality(PresentFields(dsl_in.arg)) = 7
    /\ dsl_in.arg.index = <<1>>
    /\ dsl_out = 24

(* --------------------------------- C28 --------------------------------- *)
\* C28: without automation_id there is no fallback; with it, a
\* (control_type, name) fallback iff both are set, then a (class_name, name)
\* fallback iff both are set; every fallback has the index of the source
\* selector and no automation_id.
C28_FallbacksInOrder ==
    DslDone("validate_selector_fallbacks") =>
        LET e       == dsl_in.arg
            byType  == Truthy(e.control_type) /\ Truthy(e.name)
            byClass == Truthy(e.class_name) /\ Truthy(e.name)
            count   == (IF byType THEN 1 ELSE 0) + (IF byClass THEN 1 ELSE 0)
        IN  /\ ~Truthy(e.automation_id) => dsl_out = <<>>
            /\ Truthy(e.automation_id) =>
                   /\ Len(dsl_out) = count
                   /\ byType =>
                          /\ dsl_out[1].control_type = e.control_type
                          /\ dsl_out[1].name = e.name
                          /\ dsl_out[1].class_name = None
                   /\ byClass =>
                          /\ dsl_out[count].class_name = e.class_name
                          /\ dsl_out[count].name = e.name
                          /\ dsl_out[count].control_type = None
            /\ \A j \in DOMAIN dsl_out :
                   /\ dsl_out[j].index = e.index
                   /\ dsl_out[j].automation_id = None

\* a selector with the four fields set and an index of 1 has produced two
\* fallbacks
C28_Witness ==
    /\ DslDone("validate_selector_fallbacks")
    /\ Len(dsl_out) = 2
    /\ dsl_in.arg.index = <<1>>
    /\ dsl_out[1].control_type = "Button"
    /\ dsl_out[2].class_name = "Cls"

(* --------------------------------- C29 --------------------------------- *)
\* the recipe has been loaded and validate_recipe has produced its warnings
Loaded == DslDone("load_recipe_from_dict") /\ dsl_out.ok

\* the step names a warning of that kind lists (none without the warning)
WarnedNames(kind) ==
    UNION {IF kind = "duplicates" THEN dsl_out.warnings[j].names
           ELSE {dsl_out.warnings[j].names[k] :
                     k \in DOMAIN dsl_out.warnings[j].names} :
           j \in {j \in DOMAIN dsl_out.warnings :
                      dsl_out.warnings[j].kind = kind}}

\* the names of the steps that satisfy a condition
NamesWhere(Cond(_)) ==
    {dsl_in.arg.steps[j].name :
         j \in {j \in DOMAIN dsl_in.arg.steps : Cond(dsl_in.arg.steps[j])}}

ScoreBelowFive(step) ==
    /\ step.element # <<>>
    /\ SumOfWeights(PresentFields(step.element[1])) < 5

SetAndBelowFive(step) ==
    /\ step.element # <<>>
    /\ PresentFields(step.element[1]) # {}
    /\ SumOfWeights(PresentFields(step.element[1])) < 5

\* C29 as stated: the weak-selector warning names a step iff the step has
\* an element selector whose entropy score is below 5.
C29_WeakIffScoreBelowFive ==
    Loaded => WarnedNames("weak_selectors") = NamesWhere(ScoreBelowFive)

\* C29 amended: the weak-selector warning names a step iff the step has an
\* element selector with at least one selector field set and an entropy
\* score below 5; a selector with no field set, which scores 0, is not
\* flagged, and neither is a selector scoring 5 or more.
C29_WeakIffSetAndBelowFive ==
    Loaded => WarnedNames("weak_selectors") = NamesWhere(SetAndBelowFive)

\* of two steps, the one whose selector scores 4 is named and the one whose
\* selector scores 5 is not
C29_Witness ==
    /\ Loaded
    /\ Len(dsl_in.arg.steps) = 2
    /\ dsl_in.arg.steps[1].name = "s1"
    /\ dsl_in.arg.steps[2].name = "s2"
    /\ dsl_in.arg.steps[1].element # <<>>
    /\ dsl_in.arg.steps[2].element # <<>>
    /\ SumOfWeights(PresentFields(dsl_in.arg.steps[1].element[1])) = 4
    /\ SumOfWeights(PresentFields(dsl_in.arg.steps[2].element[1])) = 5
    /\ WarnedNames("weak_selectors") = {"s1"}

(* --------------------------------- C30 --------------------------------- *)
\* the recipe names of the explored inputs that the recipe format accepts
AcceptedNames == {<<"r", "1">>, <<"r", "_", "\n">>}

StructurallyValid(data) ==
    /\ data.name \in AcceptedNames
    /\ 1 <= Len(data.steps) /\ Len(data.steps) <= 100
    /\ \A j \in DOMAIN data.steps : InRanges(data.steps[j])

SharesName(step) ==
    Cardinality({j \in DOMAIN dsl_in.arg.steps :
                     dsl_in.arg.steps[j].name = step.name}) > 1

OverSixtySeconds(step) == step.timeout > 60

UnverifiedClickOrType(step) ==
    step.action \in {"click", "type"} /\ step.verify_after = FALSE

\* C30: load_recipe_from_dict returns the recipe iff it is structurally
\* valid, whatever the warnings; the duplicate-name, long-timeout and
\* missing-verification warnings are emitted exactly when some step meets
\* the condition, and name those steps.
C30_WarningsNeverBlock ==
    DslDone("load_recipe_from_dict") =>
        /\ dsl_out.ok <=> StructurallyValid(dsl_in.arg)
        /\ dsl_out.ok =>
               /\ WarnedNames("duplicates") = NamesWhere(SharesName)
               /\ WarnedNames("long_timeouts") = NamesWhere(OverSixtySeconds)
               /\ WarnedNames("no_verify") = NamesWhere(UnverifiedClickOrType)
               /\ \A kind \in {"duplicates", "long_timeouts", "no_verify"} :
                      WarnedNames(kind) # {}
                          <=> \E j \in DOMAIN dsl_out.warnings :
                                  dsl_out.warnings[j].kind = kind

\* a recipe that draws all four warnings has been returned
C30_Witness ==
    /\ Loaded
    /\ Len(dsl_out.warnings) = 4

(* --------------------------------- C31 --------------------------------- *)
\* the text holds a "${name}" with a non-empty name that holds no "}"
HasPlaceholder(text) ==
    \E p \in 1..Len(text) : \E e \in 1..Len(text) : Occurrence(text, p, e)

(***************************************************************************)
(* C31: a text without a "${...}" placeholder is returned unchanged, by    *)
(* the first call and, when the value the first call returned holds no     *)
(* placeholder, by the second call on that value.                          *)
(***************************************************************************)
C31_IdempotentWithoutPlaceholders ==
    (/\ sub_pc \in {"returned", "returned_again"}
     /\ sub_text.t = "str"
     /\ ~HasPlaceholder(sub_text.v))
        => sub_result = sub_text

\* "${a}}" with a = 42 came back as "42}", which the second call returns
C31_Witness ==
    /\ sub_pc = "returned_again"
    /\ sub_text = StrValue(<<"4", "2", "}">>)
    /\ sub_result = sub_text

(* --------------------------------- C32 --------------------------------- *)
\* the step taken ends an attempt of the current step with a truthy result
SuccessfulAttempt ==
    /\ pc = "handler"
    /\ step_result[current_step] = "running"
    /\ step_result'[current_step] = "True"

\* the mapping differs from the old one at most at the given key, which it
\* holds
WrittenOnlyAt(old, new, key) ==
    /\ DOMAIN new = DOMAIN old \cup {key}
    /\ \A k \in DOMAIN old \ {key} : new[k] = old[k]

(***************************************************************************)
(* C32: no step of a run changes the steps of the recipe, and the          *)
(* variables change only when an attempt of a read_text, file_read or      *)
(* ocr_text step succeeds, and then only at "step_<i>_result" of that      *)
(* step; failed attempts and the other action kinds change nothing.        *)
(***************************************************************************)
C32_OnlyResultsAreWritten ==
    [][/\ recipe' = recipe
       /\ variables' # variables =>
              /\ SuccessfulAttempt
              /\ recipe[current_step].action
                     \in {"read_text", "file_read", "ocr_text"}
              /\ WrittenOnlyAt(variables, variables',
                               StepResultName(current_step))]_vars

\* a click succeeded and stored nothing; the read_text after it failed once
\* and stored its result on the retry, next to the declared variable
C32_Witness ==
    /\ Len(recipe) = 2
    /\ recipe[1].action = "click" /\ step_result[1] = "True"
    /\ recipe[2].action = "read_text" /\ step_result[2] = "True"
    /\ Count("retry", 2) > 0
    /\ DOMAIN variables = {UserKey, StepResultName(2)}

(* --------------------------------- C33 --------------------------------- *)
\* the state of step s in the step state machine; "NONE" when the step is in
\* none of its states
StepState(s) ==
    IF step_result[s] = "pending" THEN "PENDING"
    ELSE IF step_result[s] = "True" THEN "SUCCESS"
    ELSE IF step_result[s] = "False" THEN "FAILED"
    ELSE IF step_result[s] = "running" /\ current_step = s
              /\ pc \in {"attempt", "handler"} THEN "ATTEMPTING"
    ELSE IF step_result[s] = "running" /\ current_step = s /\ pc = "sleep"
         THEN "RETRY_WAIT"
    ELSE "NONE"

StepTransitions ==
    {<<"PENDING", "ATTEMPTING">>, <<"ATTEMPTING", "SUCCESS">>,
     <<"ATTEMPTING", "RETRY_WAIT">>, <<"RETRY_WAIT", "ATTEMPTING">>,
     <<"ATTEMPTING", "FAILED">>}

(***************************************************************************)
(* C33: a step moves only along PENDING -> ATTEMPTING -> {SUCCESS |        *)
(* RETRY_WAIT -> ATTEMPTING | FAILED}; while it is attempted or waits,     *)
(* 1 <= attempt <= retry_attempts; RETRY_WAIT is entered only from a       *)
(* failed attempt with attempt < retry_attempts and left only for the next *)
(* attempt; FAILED is entered only from a failed attempt with attempt =    *)
(* retry_attempts; SUCCESS and FAILED are never left.                      *)
(***************************************************************************)
C33_StepStateMachine ==
    [][\A s \in DOMAIN recipe :
          LET a == StepState(s)
              b == StepState(s)'
          IN  /\ a # b => <<a, b>> \in StepTransitions
              /\ b \in {"ATTEMPTING", "RETRY_WAIT"} =>
                     (1 <= attempt' /\ attempt' <= recipe[s].retry_attempts)
              /\ (a # b /\ b = "RETRY_WAIT") =>
                     /\ a = "ATTEMPTING"
                     /\ last_error' # None
                     /\ attempt < recipe[s].retry_attempts
              /\ (a = "RETRY_WAIT" /\ a # b) =>
                     (b = "ATTEMPTING" /\ attempt' = attempt + 1)
              /\ (a # b /\ b = "FAILED") =>
                     /\ a = "ATTEMPTING"
                     /\ last_error' # None
                     /\ attempt = recipe[s].retry_attempts]_vars

(* --------------------------------- C34 --------------------------------- *)
\* the selector fields a criteria dict uses
QueryFields(criteria) ==
    {f \in {"automation_id", "control_type", "class_name", "name"} :
        \E kv \in criteria : kv[1] = KeywordOf(f)}

\* the entropy score of the selector that holds just those fields
QueryScore(criteria) ==
    EntropyScore(
        [f \in {"automation_id", "control_type", "class_name", "name", "value",
                "help_text", "accessible_name"} |->
            IF f \in QueryFields(criteria) THEN element_selector[f] ELSE None])

\* the candidate lists to judge: the criteria built and the queries issued
CriteriaLists ==
    {search_criteria, [j \in DOMAIN queries |-> queries[j].criteria]}

C35_LaunchIsIdempotent ==
    [][\A app \in CacheApps :
          (/\ cache_op'.op = "launch"
           /\ cache_op'.app = app
           /\ processes[app] # 0) =>
              /\ cache_op'.outcome = "already_running"
              /\ pids' = pids
              /\ Get(launched_processes', app) = processes[app]]_vars

(* --------------------------------- C36 --------------------------------- *)
\* a step that does not continue on failure ended FAILED
AbortingFailure ==
    \E s \in DOMAIN recipe :
        step_result[s] = "False" /\ ~recipe[s].continue_on_failure

(***************************************************************************)
(* C36: once the run is over, execute_recipe has returned True iff no step *)
(* with continue_on_failure = false ended FAILED; in that case every step  *)
(* was executed, failed ones included, and the last event is               *)
(* recipe-complete with the number of steps of the recipe.                 *)
(***************************************************************************)
C36_TrueIffNoAbortingFailure ==
    RunOver =>
        /\ ret = "True" <=> ~AbortingFailure
        /\ ~AbortingFailure =>
               /\ \A s \in DOMAIN recipe : step_result[s] \in {"True", "False"}
               /\ events[Len(events)] = Ev("recipe_complete", 0, Len(recipe))

(* --------------------------------- C37 --------------------------------- *)
\* the field is None or empty
Without(field) == field = None \/ field = ""

\* the target of the step lacks a field its action requires
LacksRequiredField(step) ==
    \/ step.action = "launch" /\ Without(step.app)
    \/ step.action \in {"click", "read_text"} /\ Without(step.element)
    \/ step.action \in {"type", "hotkey"} /\ Without(step.text)
    \/ step.action = "wait_for"
           /\ Without(step.element) /\ Without(step.window)
    \/ step.action = "verify"
           /\ (Without(step.element) \/ Without(step.text))
    \/ step.action \in {"file_write", "file_copy"}
           /\ (Without(step.file_path) \/ Without(step.text))

(***************************************************************************)
(* C37: a step whose target lacks a field its action requires never calls  *)
(* a provider, and once the run is over it has ended FAILED after exactly  *)
(* retry_attempts attempts, with a sleep between any two of them.          *)
(***************************************************************************)
C37_MissingTargetIsRetried ==
    \A s \in DOMAIN recipe :
        LacksRequiredField(recipe[s]) =>
            /\ CallsOf("backend", s) = {}
            /\ RunOver =>
                   /\ step_result[s] = "False"
                   /\ Count("attempt", s) = recipe[s].retry_attempts
                   /\ Count("sleep", s) = recipe[s].retry_attempts - 1
                   /\ SleepsBetweenAttempts(s)

(* --------------------------------- C38 --------------------------------- *)
\* the operation that has returned or raised ("" while none has)
UiFinished(op) == ui_pc = "done_" \o op

UiOver ==
    \E op \in {"click_element", "type_text", "send_hotkey",
               "get_element_text", "verify_element_state"} : UiFinished(op)

\* the operation looked for an element and found none
ElementNotFound ==
    /\ ~UiFinished("send_hotkey")
    /\ ui_call.element
    /\ ~ui_call.found

\* click_element found an element that is not visible or not enabled
ElementNotReady ==
    /\ UiFinished("click_element")
    /\ ui_call.found
    /\ \/ "is_visible" \notin ui_call.raising /\ ~ui_call.visible
       \/ /\ {"is_visible", "is_enabled"} \cap ui_call.raising = {}
          /\ ~ui_call.enabled

\* the backend call that carries out the action raised
ActionRaised ==
    \/ /\ UiFinished("click_element")
       /\ ui_call.found /\ ui_call.visible /\ ui_call.enabled
       /\ "click_input" \in ui_call.raising
    \/ /\ UiFinished("type_text")
       /\ ui_call.element => ui_call.found
       /\ (IF ui_call.element THEN "type_keys" ELSE "send_keys")
              \in ui_call.raising
    \/ UiFinished("send_hotkey") /\ "send_keys" \in ui_call.raising
    \/ /\ UiFinished("verify_element_state")
       /\ ui_call.found
       /\ "state" \in ui_call.raising

DestinationFileExists ==
    RealPath(AbsPath(fs_call.dest)) \in DOMAIN InitialFiles

\* no attempt of step s got a truthy result from its handler
EveryAttemptFailed(s) == Count("handler_ok", s) = 0

(***************************************************************************)
(* C39: copy_file is called without overwrite; when the destination file   *)
(* exists, no attempt of the file_copy step succeeds, the files keep their *)
(* content, and once the run is over the step has ended FAILED after       *)
(* retry_attempts attempts.                                                *)
(***************************************************************************)
C39_ExistingDestinationIsKept ==
    (pc # "off" /\ fs_pc = "idle" /\ DestinationFileExists) =>
        /\ ~fs_call.flag
        /\ EveryAttemptFailed(1)
        /\ files = InitialFiles
        /\ RunOver =>
               /\ step_result[1] = "False"
               /\ Count("attempt", 1) = recipe[1].retry_attempts

\* the part of C39 about the file system alone
C39_DestinationNeverOverwritten ==
    (pc # "off" /\ fs_pc = "idle" /\ DestinationFileExists) =>
        /\ EveryAttemptFailed(1)
        /\ files = InitialFiles

\* C39 for the steps whose retry_delay is not negative
C39_KeptWhenDelayNotNegative ==
    (pc # "off" /\ fs_pc = "idle" /\ recipe[1].retry_delay >= 0) =>
        C39_ExistingDestinationIsKept

\* a step of three attempts onto an existing destination ended FAILED
C39_FailedAfterAllAttempts ==
    /\ pc # "off" /\ fs_pc = "idle" /\ DestinationFileExists
    /\ RunOver
    /\ step_result[1] = "False"
    /\ Count("attempt", 1) = MaxAttempts

====
